---------------------------- MODULE Spec2Model ----------------------------
(***************************************************************************)
(* Model of the card sorter's orchestrator (Basic-Website.py): the routing *)
(* function matches_criteria, the routing loop of sorting_loop, the worker *)
(* loop itself and the start / stop / submit handlers of index().          *)
(*                                                                         *)
(* Strings are sequences of one-character strings, so that strip, lower,   *)
(* split, substring and first-letter comparison are computed as Python     *)
(* computes them on the ASCII characters used here.                        *)
(***************************************************************************)
EXTENDS Integers, Sequences, FiniteSets, TLC

(***************************************************************************)
(* Bounds of the model.                                                    *)
(***************************************************************************)
\* number of concurrently served control-panel requests
NumHandlers == 2
\* number of control-panel requests served in one behaviour
MaxRequests == 2
\* number of cycles all workers together may begin in one behaviour
MaxCycles == 2
\* number of bins of a criteria table that carry a filter
MaxFilled == 2
\* polls for which a sensor level must hold (stable_ms / poll_ms, scaled)
StablePolls == 2
\* polls after which a wait gives up (timeout_sec / poll_ms, scaled)
TimeoutPolls == 4
\* units of time in one poll interval
PollUnits == 2

(***************************************************************************)
(* Characters and strings.                                                 *)
(***************************************************************************)
UpperLetters ==
    <<"A","B","C","D","E","F","G","H","I","J","K","L","M",
      "N","O","P","Q","R","S","T","U","V","W","X","Y","Z">>

LowerLetters ==
    <<"a","b","c","d","e","f","g","h","i","j","k","l","m",
      "n","o","p","q","r","s","t","u","v","w","x","y","z">>

DigitChars == <<"0","1","2","3","4","5","6","7","8","9">>

Range(seq) == {seq[i] : i \in DOMAIN seq}

IndexOf(c, seq) == CHOOSE i \in DOMAIN seq : seq[i] = c

\* code point of a character (Python compares one-character strings by it)
Ord(c) ==
    IF c \in Range(UpperLetters) THEN 64 + IndexOf(c, UpperLetters)
    ELSE IF c \in Range(LowerLetters) THEN 96 + IndexOf(c, LowerLetters)
    ELSE IF c \in Range(DigitChars) THEN 47 + IndexOf(c, DigitChars)
    ELSE IF c = " " THEN 32
    ELSE IF c = "-" THEN 45
    ELSE 46

\* str.upper() and str.lower() of one character
UpperChar(c) ==
    IF c \in Range(LowerLetters) THEN UpperLetters[IndexOf(c, LowerLetters)] ELSE c

LowerChar(c) ==
    IF c \in Range(UpperLetters) THEN LowerLetters[IndexOf(c, UpperLetters)] ELSE c

Lower(s) == [i \in DOMAIN s |-> LowerChar(s[i])]

\* str.strip(): drop leading and trailing blanks
RECURSIVE LStrip(_)
LStrip(s) == IF s # <<>> /\ Head(s) = " " THEN LStrip(Tail(s)) ELSE s

RECURSIVE RStrip(_)
RStrip(s) ==
    IF s # <<>> /\ s[Len(s)] = " " THEN RStrip(SubSeq(s, 1, Len(s) - 1)) ELSE s

Strip(s) == RStrip(LStrip(s))

\* sub in s
Contains(sub, s) ==
    \E k \in 0..(Len(s) - Len(sub)) : SubSeq(s, k + 1, k + Len(sub)) = sub

\* s.split("-")
RECURSIVE SplitDash(_, _)
SplitDash(s, cur) ==
    IF s = <<>> THEN <<cur>>
    ELSE IF Head(s) = "-" THEN <<cur>> \o SplitDash(Tail(s), <<>>)
    ELSE SplitDash(Tail(s), Append(cur, Head(s)))

Split(s) == SplitDash(s, <<>>)

(***************************************************************************)
(* float(): the value of a decimal literal as n / 10^e, or a ValueError.   *)
(* Covers literals made of blanks, a sign, digits and one point; every     *)
(* other text used in this model is one float() rejects.                   *)
(***************************************************************************)
RECURSIVE Pow10(_)
Pow10(e) == IF e = 0 THEN 1 ELSE 10 * Pow10(e - 1)

RECURSIVE DigitsValue(_)
DigitsValue(s) ==
    IF s = <<>> THEN 0
    ELSE 10 * DigitsValue(SubSeq(s, 1, Len(s) - 1))
         + (IndexOf(s[Len(s)], DigitChars) - 1)

ValueError == [ok |-> FALSE, n |-> 0, e |-> 0]

ParseUnsigned(s) ==
    LET dots == {i \in DOMAIN s : s[i] = "."}
        digs == {i \in DOMAIN s : s[i] \in Range(DigitChars)}
    IN  IF digs = {} \/ Cardinality(dots) > 1 \/ dots \cup digs # DOMAIN s
        THEN ValueError
        ELSE IF dots = {}
        THEN [ok |-> TRUE, n |-> DigitsValue(s), e |-> 0]
        ELSE LET d == CHOOSE i \in dots : TRUE
                 whole == SubSeq(s, 1, d - 1)
                 frac == SubSeq(s, d + 1, Len(s))
             IN  [ok |-> TRUE, n |-> DigitsValue(whole \o frac), e |-> Len(frac)]

ParseFloat(str) ==
    LET s == Strip(str)
    IN  IF s # <<>> /\ Head(s) = "-"
        THEN LET p == ParseUnsigned(Tail(s))
             IN  IF p.ok THEN [ok |-> TRUE, n |-> 0 - p.n, e |-> p.e] ELSE p
        ELSE ParseUnsigned(s)

\* float(x) of a card's cmc: a JSON number is its own value, a text is parsed
FloatOf(v) == IF v.isnum THEN [ok |-> TRUE, n |-> v.n, e |-> v.e] ELSE ParseFloat(v.str)

FloatEq(x, y) == x.n * Pow10(y.e) = y.n * Pow10(x.e)

(***************************************************************************)
(* Cards and bin criteria are Python dicts: records whose keys may be      *)
(* absent.  dict.get(key, default) is Get.                                 *)
(***************************************************************************)
Get(d, key, default) == IF key \in DOMAIN d THEN d[key] ELSE default

\* {} : the dict with no keys
EmptyDict == [k \in {} |-> <<>>]

\* a JSON number n / 10^e, and a JSON text, as values of a card's "cmc"
Num(n, e) == [isnum |-> TRUE, n |-> n, e |-> e, str |-> <<>>]
Txt(s) == [isnum |-> FALSE, n |-> 0, e |-> 0, str |-> s]

\* set(list)
ToSet(list) == Range(list)

NoneSentinel == <<"-","n","o","n","e","-">>

(***************************************************************************)
(* matches_criteria(card, criteria).  An absent key of criteria reads as   *)
(* None, which is as falsy as the empty text it is modelled by.            *)
(***************************************************************************)
\* a first letter taken as it is written
FirstLetterAsWritten(card_name) == card_name[1]

\* line 169: card_name[0].upper()
FirstLetter(card_name) == UpperChar(card_name[1])

\* a substring test that tells upper case from lower case
NotInNameExact(name_crit, card_name) == ~Contains(name_crit, card_name)

\* lines 173 and 176: name_crit.lower() not in card_name.lower()
NotInName(name_crit, card_name) == ~Contains(Lower(name_crit), Lower(card_name))

\* lines 159-177: TRUE when the name block executes "return False"
NameRejects(card, criteria) ==
    LET name_crit == Strip(criteria["name"])
        card_name == Strip(Get(card, "name", <<>>))
    IN  IF "-" \in Range(name_crit)
        THEN LET parts == Split(name_crit)
             IN  IF /\ Len(parts) = 2
                    /\ Len(Strip(parts[1])) = 1
                    /\ Len(Strip(parts[2])) = 1
                 THEN LET start_letter == UpperChar(Strip(parts[1])[1])
                          end_letter == UpperChar(Strip(parts[2])[1])
                      IN  IF card_name = <<>>
                          THEN TRUE
                          ELSE LET first_letter == FirstLetter(card_name)
                               IN  \/ Ord(first_letter) < Ord(start_letter)
                                   \/ Ord(first_letter) > Ord(end_letter)
                 ELSE NotInName(name_crit, card_name)
        ELSE NotInName(name_crit, card_name)

\* lines 183-188
CmcRejects(card, criteria) ==
    LET want == ParseFloat(criteria["cmc"])
        have == FloatOf(Get(card, "cmc", Num(0, 0)))
    IN  IF want.ok /\ have.ok THEN ~FloatEq(want, have) ELSE TRUE

\* a colour test that accepts every card holding the filter's colours
ColorsRejectUnlessSubset(card, criteria) ==
    LET crit_colors == ToSet(criteria["colors"])
        card_colors == ToSet(Get(card, "colors", <<>>))
    IN  IF crit_colors = {"C"}
        THEN card_colors # {}
        ELSE ~(crit_colors \subseteq card_colors)

\* lines 194-202
ColorsReject(card, criteria) ==
    LET crit_colors == ToSet(criteria["colors"])
        card_colors == ToSet(Get(card, "colors", <<>>))
    IN  IF crit_colors = {"C"}
        THEN card_colors # {}
        ELSE crit_colors # card_colors

\* an emptiness test that lets every entry through
HasCriteriaAlways(criteria) == TRUE

\* lines 152-156: at least one filter is set
HasCriteria(criteria) ==
    LET type == Get(criteria, "type", <<>>)
    IN  \/ Get(criteria, "name", <<>>) # <<>>
        \/ (type # <<>> /\ Lower(type) # NoneSentinel)
        \/ Get(criteria, "cmc", <<>>) # <<>>
        \/ Get(criteria, "set_symbol", <<>>) # <<>>
        \/ Get(criteria, "colors", <<>>) # <<>>

\* lines 179-181
TypeRejects(card, criteria) ==
    /\ Lower(criteria["type"]) # NoneSentinel
    /\ ~Contains(Lower(criteria["type"]), Lower(Get(card, "type", <<>>)))

\* a set-code test that rejects nothing
SetNeverRejects(card, criteria) == FALSE

\* lines 190-192
SetRejects(card, criteria) ==
    ~Contains(Lower(criteria["set_symbol"]), Lower(Get(card, "set_symbol", <<>>)))

matches_criteria(card, criteria) ==
    IF ~HasCriteria(criteria) THEN FALSE
    ELSE IF Get(criteria, "name", <<>>) # <<>> /\ NameRejects(card, criteria) THEN FALSE
    ELSE IF Get(criteria, "type", <<>>) # <<>> /\ TypeRejects(card, criteria) THEN FALSE
    ELSE IF Get(criteria, "cmc", <<>>) # <<>> /\ CmcRejects(card, criteria) THEN FALSE
    ELSE IF Get(criteria, "set_symbol", <<>>) # <<>> /\ SetRejects(card, criteria) THEN FALSE
    ELSE IF Get(criteria, "colors", <<>>) # <<>> /\ ColorsReject(card, criteria) THEN FALSE
    ELSE TRUE

(***************************************************************************)
(* The routing loop of sorting_loop (lines 323-334), run under the lock.   *)
(***************************************************************************)
NumBoxes == 10
DefaultBox == 10

\* box_criteria.get(i, {})
CriteriaOf(table, i) == Get(table, i, EmptyDict)

\* for i in range(1, 11): first match breaks the loop; None when none does
RECURSIVE ScanBoxes(_, _, _)
ScanBoxes(card, table, i) ==
    IF i > NumBoxes THEN 0
    ELSE IF matches_criteria(card, CriteriaOf(table, i)) THEN i
    ELSE ScanBoxes(card, table, i + 1)

\* a routing loop that keeps the last matching bin instead of the first
SelectBoxLast(card, table) ==
    LET hits == {i \in 1..NumBoxes : matches_criteria(card, CriteriaOf(table, i))}
    IN  IF hits = {} THEN DefaultBox ELSE CHOOSE i \in hits : \A j \in hits : j <= i

SelectBox(card, table) ==
    LET selected_box == ScanBoxes(card, table, 1)
    IN  IF selected_box = 0 THEN DefaultBox ELSE selected_box

(***************************************************************************)
(* State of the orchestrator process.                                      *)
(***************************************************************************)
VARIABLES
    sorting_active,         \* global flag tested by the worker loop
    sorting_thread,         \* global handle: a Thread object, or None
    box_criteria,           \* global dict: bin number -> criteria dict
    move_count,             \* lifetime counter
    monthly_move_count,     \* monthly counter
    failed_read_count,      \* failed identifications
    counter_files,          \* the three persisted counters
    card_identified_url,    \* last identified card reference
    wpc,                    \* Thread object -> position in sorting_loop
    card,                   \* Thread object -> local "card"
    selected_box,           \* Thread object -> local "selected_box"
    hpc,                    \* request handler -> position in index()
    joining,                \* request handler -> Thread object it joins
    hopper,                 \* the cards of the run: what Read-Card.py may identify
    acts,                   \* history: Thread object -> what it ran in its cycle
    requests,               \* history: requests taken up so far
    stopped,                \* history: Thread objects that ran when a stop came
    lock,                   \* threading.Lock: who holds it, or None
    scan,                   \* Thread object -> i of the routing loop, 0 outside it
    seen,                   \* history: Thread object -> tables its routing loop read
    built,                  \* request handler -> its local "new_criteria"
    saving,                 \* request handler -> argument of the save it is in
    manual,                 \* history: the script /run_script ran last, and the flag then
    reg,                    \* Thread object -> the value it loaded for a += 1
    rc_pc,                  \* Read-Card.py: position in main()
    rc_ocr,                 \* Read-Card.py: what recognize_card returned
    rc_url,                 \* Read-Card.py: the kind of the fuzzy url
    rc_info,                \* Read-Card.py: card_info
    rc_stdout,              \* Read-Card.py: the lines printed
    rc_exit,                \* Read-Card.py: exit status, -1 while it runs
    f_pc,                   \* Feed-Card.py: position of the main flow
    f_todo,                 \* Feed-Card.py: motors the stop_motor calls at hand still take
    f_sub,                  \* Feed-Card.py: position in stop_motor
    f_exit,                 \* Feed-Card.py: exit status, -1 while it runs
    motor_thread,           \* Feed-Card.py: motor -> motorN_thread, a task or None
    motor_stop,             \* Feed-Card.py: motor -> is motorN_stop set
    tk_pc,                  \* Feed-Card.py: task -> position in motor_step_sequence
    pins,                   \* Feed-Card.py: motor -> task whose pattern is on its pins, 0: all low
    elapsed,                \* Feed-Card.py: polls since wait_for_level_stable began
    stable_start,           \* Feed-Card.py: poll at which the level became stable, or -1
    f_late,                 \* history: tasks alive when the join on them timed out
    f_trace,                \* history: the positions the main flow came through
    ws_pc,                  \* wait_for_level_stable: position in one call
    ws_target,              \* wait_for_level_stable: target_level
    ws_now,                 \* time.time(), in units
    ws_deadline,            \* wait_for_level_stable: deadline
    ws_start,               \* wait_for_level_stable: stable_start, -1 for None
    ws_slept,               \* units slept in the current time.sleep(poll)
    ws_level,               \* the level of the sensor pin
    ws_result,              \* what the call returned: "none", "true", "false"
    ws_reads,               \* history: the reads of the call, time and value
    ws_hold,                \* history: full units the pin has stayed at the target
    ws_best,                \* history: the longest such stay of the call
    rises                   \* history: times sorting_active went False -> True

vars ==
    <<sorting_active, sorting_thread, box_criteria, move_count,
      monthly_move_count, failed_read_count, counter_files,
      card_identified_url, wpc, card, selected_box, acts, hpc, joining, rises,
      requests, hopper, stopped, lock, scan, seen, built, saving,
      manual, reg, rc_pc, rc_ocr, rc_url, rc_info, rc_stdout, rc_exit,
      f_pc, f_todo, f_sub, f_exit, motor_thread, motor_stop, tk_pc, pins,
      elapsed, stable_start, f_late, f_trace, ws_pc, ws_target, ws_now,
      ws_deadline, ws_start, ws_slept, ws_level, ws_result, ws_reads, ws_hold,
      ws_best>>

\* what the panel's further requests and the lock add to the state
lockVars == <<lock, scan, seen, built>>
hookVars == <<saving, manual, reg>>
panelVars == <<lockVars, hookVars>>
\* the process of one run of Read-Card.py
readVars == <<rc_pc, rc_ocr, rc_url, rc_info, rc_stdout, rc_exit>>
\* the process of one run of Feed-Card.py
feedVars ==
    <<f_pc, f_todo, f_sub, f_exit, motor_thread, motor_stop, tk_pc, pins,
      elapsed, stable_start, f_late, f_trace>>
\* one call of wait_for_level_stable, with the pin it reads
waitVars ==
    <<ws_pc, ws_target, ws_now, ws_deadline, ws_start, ws_slept, ws_level,
      ws_result, ws_reads, ws_hold, ws_best>>
scriptVars == <<readVars, feedVars, waitVars>>
\* what no step of the orchestrator changes
envVars == <<hopper, scriptVars>>
otherVars == <<envVars, panelVars>>
\* the orchestrator process
coreVars ==
    <<sorting_active, sorting_thread, box_criteria, move_count,
      monthly_move_count, failed_read_count, counter_files,
      card_identified_url, wpc, card, selected_box, acts, hpc, joining, rises,
      requests, hopper, stopped, panelVars>>

workerVars == <<wpc, card, selected_box, acts>>
counterVars == <<move_count, monthly_move_count, failed_read_count, counter_files>>
handlerVars == <<hpc, joining, requests>>

Handlers == 1..NumHandlers
\* a Thread object per start request, and one for a run already under way
Threads == 1..(MaxRequests + 1)
None == 0
NoCard == EmptyDict

\* Thread objects that were constructed / whose run() is executing sorting_loop
Constructed == {t \in Threads : wpc[t] # "none"}
Started == {t \in Threads : wpc[t] \notin {"none", "created"}}
Alive == {t \in Threads : wpc[t] \notin {"none", "created", "dead"}}
InCycle == {t \in Alive : wpc[t] # "test"}
Feeding == {t \in Threads : wpc[t] \in {"feed1", "feed2"}}
Dispensing == {t \in Threads : wpc[t] \in {"dispense", "release", "close", "capture"}}

(***************************************************************************)
(* Inputs: card records as Read-Card.py prints them, and criteria as the   *)
(* submit branch of index() builds them (texts stripped, colours listed in *)
(* the order W, U, B, R, G, C).                                            *)
(***************************************************************************)
CardRec(name, type, colors, cmc, set_symbol) ==
    [name |-> name, type |-> type, colors |-> colors, cmc |-> cmc,
     set_symbol |-> set_symbol, card_identified_url |-> name]

Crit(name, type, colors, cmc, set_symbol) ==
    [name |-> name, type |-> type, colors |-> colors, cmc |-> cmc,
     set_symbol |-> set_symbol]

EmptyCrit == Crit(<<>>, <<>>, <<>>, <<>>, <<>>)

TCreature == <<"C","r","e","a","t","u","r","e">>
TLegendary == <<"L","e","g","e","n","d","a","r","y"," ","C","r","e","a","t","u","r","e">>
TInstant == <<"I","n","s","t","a","n","t">>
TArtifact == <<"A","r","t","i","f","a","c","t">>

Cards ==
    { CardRec(<<"B","o","l","t">>, TInstant, <<"R">>, Num(10, 1), <<"l","e","a">>),
      CardRec(<<"m","o","x">>, TArtifact, <<>>, Num(0, 0), <<"l","e","a">>),
      CardRec(<<"A","j","a","n","i">>, TLegendary, <<"U","W">>, Num(30, 1), <<"m","2","1">>),
      CardRec(<<"Z","a","p">>, TCreature, <<"W","U","B">>, Txt(<<"C","M","C">>), <<"m","2","1">>),
      CardRec(<<>>, TCreature, <<"W">>, Num(3, 0), <<"l","e","a">>),
      CardRec(<<"X","-","M","e","n">>, TInstant, <<"W">>, Num(25, 1), <<"s","p","m">>),
      CardRec(<<"Z"," ","m","-","a">>, TArtifact, <<"B">>, Num(3, 0), <<"l","e","a">>) }

NameCrits ==
    { <<"A","-","M">>, <<"a","-","m">>, <<"M","-","A">>, <<"A"," ","-"," ","M">>,
      <<"x","-","m","e","n">>, <<"O","L">>, <<"Z","-">>, <<"M","-","Z">> }

TypeCrits == { <<"c","r","e","a","t","u","r","e">>, <<"-","N","o","n","e","-">>, TInstant }

CmcCrits == { <<"3">>, <<"3",".","0">>, <<"x">>, <<"0">>, <<"2",".","5">> }

SetCrits == { <<"L","E","A">>, <<"2">> }

ColorCrits == { <<"C">>, <<"W">>, <<"W","U">>, <<"W","C">>, <<"W","U","B","R">> }

\* criteria with one field set, and some with several
Crits ==
    {Crit(n, <<>>, <<>>, <<>>, <<>>) : n \in NameCrits}
    \cup {Crit(<<>>, t, <<>>, <<>>, <<>>) : t \in TypeCrits}
    \cup {Crit(<<>>, <<>>, <<>>, c, <<>>) : c \in CmcCrits}
    \cup {Crit(<<>>, <<>>, <<>>, <<>>, s) : s \in SetCrits}
    \cup {Crit(<<>>, <<>>, c, <<>>, <<>>) : c \in ColorCrits}
    \cup { Crit(<<"A","-","M">>, <<"-","n","o","n","e","-">>, <<>>, <<>>, <<>>),
           Crit(<<>>, TCreature, <<"W","U">>, <<>>, <<>>),
           Crit(<<"o","l">>, TInstant, <<"R">>, <<"1">>, <<"l","e","a">>),
           Crit(<<"o","l">>, TInstant, <<"R">>, <<"2">>, <<"l","e","a">>),
           Crit(<<>>, TInstant, <<>>, <<>>, <<"m","2","1">>) }

\* criteria for the further filled bins of a table
OtherCrits ==
    { Crit(<<>>, TCreature, <<>>, <<>>, <<>>),
      Crit(<<"A","-","Z">>, <<>>, <<>>, <<>>, <<>>) }

\* the bins that carry a filter when a table fills more than one
Slots == {1, 2, 5, NumBoxes}

\* a submitted table: ten slots, at most MaxFilled of them carrying a filter;
\* a single filter sits in any bin, several sit in bins of Slots
TableOf(filled, focus, c, others) ==
    [i \in 1..NumBoxes |->
        IF i = focus THEN c ELSE IF i \in filled THEN others[i] ELSE EmptyCrit]

Filled ==
    { f \in SUBSET (1..NumBoxes) :
        /\ Cardinality(f) \in 1..MaxFilled
        /\ Cardinality(f) > 1 => f \subseteq Slots }

Tables ==
    {[i \in 1..NumBoxes |-> EmptyCrit]}
    \cup UNION { { TableOf(fp[1], fp[2], c, others) :
                     c \in Crits, others \in [fp[1] \ {fp[2]} -> OtherCrits] } :
                 fp \in { x \in Filled \X (1..NumBoxes) : x[2] \in x[1] } }

\* the inputs of the orchestrator's own behaviours: two cards, two tables
LegendaryCard ==
    CardRec(<<"A","j","a","n","i">>, TLegendary, <<"U","W">>, Num(30, 1), <<"m","2","1">>)

InstantCard ==
    CardRec(<<"B","o","l","t">>, TInstant, <<"R">>, Num(10, 1), <<"l","e","a">>)

LoopCards == {LegendaryCard, InstantCard}

SubmitTables ==
    { [i \in 1..NumBoxes |-> IF i = 3 THEN Crit(<<>>, TCreature, <<>>, <<>>, <<>>) ELSE EmptyCrit],
      [i \in 1..NumBoxes |-> IF i \in {2, 10} THEN Crit(<<>>, <<>>, <<"R">>, <<>>, <<>>) ELSE EmptyCrit] }

ErrorCard == [error |-> "error"]

\* line 280: the record the worker builds itself when stdout is not JSON
DecodeErrorCard == [error |-> "Decoding error"]

\* one run of a script, or one routing pass, as the worker performs it
Act(op, bin, ok) == [op |-> op, bin |-> bin, ok |-> ok]

(***************************************************************************)
(* The worker: sorting_loop (lines 259-365), one action per blocking step. *)
(***************************************************************************)
\* line 261: while sorting_active
WTest(t) ==
    /\ wpc[t] = "test"
    /\ IF sorting_active
       THEN /\ move_count + Cardinality(InCycle) < MaxCycles
            /\ wpc' = [wpc EXCEPT ![t] = "feed1"]
            /\ UNCHANGED <<card, selected_box>>
       ELSE /\ wpc' = [wpc EXCEPT ![t] = "dead"]
            /\ card' = [card EXCEPT ![t] = NoCard]
            /\ selected_box' = [selected_box EXCEPT ![t] = None]
    /\ UNCHANGED <<sorting_active, sorting_thread, box_criteria, counterVars,
                   card_identified_url, acts, handlerVars, rises, otherVars,
                   stopped>>

\* a first feed whose success is followed by a second run all the same
WFeed1RetriesAlways(t) ==
    /\ wpc[t] = "feed1"
    /\ \E returncode \in {0, 1} :
          /\ wpc' = [wpc EXCEPT ![t] = "feed2"]
          /\ acts' = [acts EXCEPT ![t] = Append(@, Act("feed", 0, returncode = 0))]
    /\ UNCHANGED <<sorting_active, sorting_thread, box_criteria, counterVars,
                   card_identified_url, card, selected_box, handlerVars, rises,
                   otherVars, stopped>>

\* lines 264-267: first Feed-Card.py run; a failure sleeps and retries
WFeed1(t) ==
    /\ wpc[t] = "feed1"
    /\ \E returncode \in {0, 1} :
          /\ wpc' = [wpc EXCEPT ![t] = IF returncode # 0 THEN "feed2" ELSE "read"]
          /\ acts' = [acts EXCEPT ![t] = Append(@, Act("feed", 0, returncode = 0))]
    /\ UNCHANGED <<sorting_active, sorting_thread, box_criteria, counterVars,
                   card_identified_url, card, selected_box, handlerVars, rises,
                   otherVars, stopped>>

\* a retry whose failure leaves the loop but not the flag
WFeed2KeepsFlag(t) ==
    /\ wpc[t] = "feed2"
    /\ \E returncode \in {0, 1} :
          /\ acts' = [acts EXCEPT ![t] = Append(@, Act("feed", 0, returncode = 0))]
          /\ IF returncode # 0
             THEN /\ wpc' = [wpc EXCEPT ![t] = "dead"]
                  /\ card' = [card EXCEPT ![t] = NoCard]
                  /\ selected_box' = [selected_box EXCEPT ![t] = None]
             ELSE /\ wpc' = [wpc EXCEPT ![t] = "read"]
                  /\ UNCHANGED <<card, selected_box>>
    /\ UNCHANGED <<sorting_active, sorting_thread, box_criteria, counterVars,
                   card_identified_url, handlerVars, rises, otherVars, stopped>>

\* lines 268-272: the retry; a second failure clears the flag and breaks
WFeed2(t) ==
    /\ wpc[t] = "feed2"
    /\ \E returncode \in {0, 1} :
          /\ acts' = [acts EXCEPT ![t] = Append(@, Act("feed", 0, returncode = 0))]
          /\ IF returncode # 0
             THEN /\ sorting_active' = FALSE
                  /\ wpc' = [wpc EXCEPT ![t] = "dead"]
                  /\ card' = [card EXCEPT ![t] = NoCard]
                  /\ selected_box' = [selected_box EXCEPT ![t] = None]
             ELSE /\ wpc' = [wpc EXCEPT ![t] = "read"]
                  /\ UNCHANGED <<sorting_active, card, selected_box>>
    /\ UNCHANGED <<sorting_thread, box_criteria, counterVars,
                   card_identified_url, handlerVars, rises, otherVars, stopped>>

\* Read-Card.py exits non-zero: CalledProcessError, caught at 356
ReadRaises(t) ==
    /\ wpc' = [wpc EXCEPT ![t] = "count"]
    /\ acts' = [acts EXCEPT ![t] = Append(@, Act("read", 0, FALSE))]
    /\ UNCHANGED <<card, selected_box, counterVars, card_identified_url,
                   otherVars, stopped>>

\* lines 278-310 with stdout that is not JSON: counted at 281, again at 288
ReadUnparsable(t) ==
    /\ card' = [card EXCEPT ![t] = DecodeErrorCard]
    /\ selected_box' = [selected_box EXCEPT ![t] = DefaultBox]
    /\ failed_read_count' = failed_read_count + 2
    /\ counter_files' = [counter_files EXCEPT !.failed = failed_read_count + 2]
    /\ wpc' = [wpc EXCEPT ![t] = "dispense"]
    /\ acts' = [acts EXCEPT ![t] = Append(@, Act("read", 0, TRUE))]
    /\ UNCHANGED <<move_count, monthly_move_count, card_identified_url, otherVars,
                   stopped>>

\* an error marker that is handed to the routing loop like a card
ReadErrorRouted(t) ==
    /\ card' = [card EXCEPT ![t] = ErrorCard]
    /\ selected_box' = [selected_box EXCEPT ![t] = None]
    /\ failed_read_count' = failed_read_count + 1
    /\ counter_files' = [counter_files EXCEPT !.failed = failed_read_count + 1]
    /\ wpc' = [wpc EXCEPT ![t] = "route"]
    /\ acts' = [acts EXCEPT ![t] = Append(@, Act("read", 0, TRUE))]
    /\ UNCHANGED <<move_count, monthly_move_count, card_identified_url, otherVars,
                   stopped>>

\* lines 285-310 with output that carries "error"
ReadError(t) ==
    /\ card' = [card EXCEPT ![t] = ErrorCard]
    /\ selected_box' = [selected_box EXCEPT ![t] = DefaultBox]
    /\ failed_read_count' = failed_read_count + 1
    /\ counter_files' = [counter_files EXCEPT !.failed = failed_read_count + 1]
    /\ wpc' = [wpc EXCEPT ![t] = "dispense"]
    /\ acts' = [acts EXCEPT ![t] = Append(@, Act("read", 0, TRUE))]
    /\ UNCHANGED <<move_count, monthly_move_count, card_identified_url, otherVars,
                   stopped>>

\* lines 311-321 with a card record
ReadCard(t) ==
    \E c \in hopper :
       /\ card' = [card EXCEPT ![t] = c]
       /\ card_identified_url' =
             IF Get(c, "card_identified_url", <<>>) # <<>>
             THEN c["card_identified_url"] ELSE card_identified_url
       /\ selected_box' = [selected_box EXCEPT ![t] = None]
       /\ wpc' = [wpc EXCEPT ![t] = "route"]
       /\ acts' = [acts EXCEPT ![t] = Append(@, Act("read", 0, TRUE))]
       /\ UNCHANGED counterVars

\* lines 275-321: Read-Card.py, parsing of its output, the failure branch
\* and the bookkeeping of an identified card
WRead(t) ==
    /\ wpc[t] = "read"
    /\ \/ ReadRaises(t)
       \/ ReadUnparsable(t)
       \/ ReadError(t)
       \/ ReadCard(t)
    /\ UNCHANGED <<sorting_active, sorting_thread, box_criteria, handlerVars, rises,
                   otherVars, stopped>>

\* a routing step that gives the cycle up once the flag is cleared
WRouteChecksFlag(t) ==
    /\ wpc[t] = "route"
    /\ IF sorting_active
       THEN /\ selected_box' = [selected_box EXCEPT ![t] = SelectBox(card[t], box_criteria)]
            /\ wpc' = [wpc EXCEPT ![t] = "dispense"]
            /\ acts' = [acts EXCEPT ![t] =
                           Append(@, Act("route", SelectBox(card[t], box_criteria), TRUE))]
            /\ UNCHANGED card
       ELSE /\ wpc' = [wpc EXCEPT ![t] = "dead"]
            /\ card' = [card EXCEPT ![t] = NoCard]
            /\ selected_box' = [selected_box EXCEPT ![t] = None]
            /\ UNCHANGED acts
    /\ UNCHANGED <<sorting_active, sorting_thread, box_criteria, counterVars,
                   card_identified_url, handlerVars, rises, otherVars, stopped>>

\* lines 323-334: the routing loop, under the lock
WRoute(t) ==
    /\ wpc[t] = "route"
    /\ selected_box' = [selected_box EXCEPT ![t] = SelectBox(card[t], box_criteria)]
    /\ wpc' = [wpc EXCEPT ![t] = "dispense"]
    /\ acts' = [acts EXCEPT ![t] =
                   Append(@, Act("route", SelectBox(card[t], box_criteria), TRUE))]
    /\ UNCHANGED <<sorting_active, sorting_thread, box_criteria, counterVars,
                   card_identified_url, card, handlerVars, rises, otherVars,
                   stopped>>

\* a script run with check=True: it returns, or raises CalledProcessError,
\* which line 356 absorbs; either way the cycle goes on to the counters
Run(t, op, bin, next) ==
    /\ \E returncode \in {0, 1} :
          /\ wpc' = [wpc EXCEPT ![t] = IF returncode = 0 THEN next ELSE "count"]
          /\ acts' = [acts EXCEPT ![t] = Append(@, Act(op, bin, returncode = 0))]
    /\ UNCHANGED <<sorting_active, sorting_thread, box_criteria, counterVars,
                   card_identified_url, card, selected_box, handlerVars, rises,
                   otherVars, stopped>>

\* a gate step that looks the bin up again in the table of the moment
WOpenRecomputed(t) ==
    /\ wpc[t] = "dispense"
    /\ selected_box[t] # DefaultBox
    /\ Run(t, "open", SelectBox(card[t], box_criteria), "release")

\* lines 344-345: Flapper-<selected_box>_Open.py
WOpen(t) ==
    /\ wpc[t] = "dispense"
    /\ selected_box[t] # DefaultBox
    /\ Run(t, "open", selected_box[t], "release")

\* a release whose failure ends the run
WReleaseFatal(t) ==
    /\ \/ wpc[t] = "dispense" /\ selected_box[t] = DefaultBox
       \/ wpc[t] = "release"
    /\ \E returncode \in {0, 1} :
          /\ acts' = [acts EXCEPT ![t] = Append(@, Act("release", 0, returncode = 0))]
          /\ IF returncode = 0
             THEN /\ wpc' = [wpc EXCEPT ![t] =
                               IF selected_box[t] = DefaultBox THEN "capture" ELSE "close"]
                  /\ UNCHANGED <<sorting_active, card, selected_box>>
             ELSE /\ wpc' = [wpc EXCEPT ![t] = "dead"]
                  /\ sorting_active' = FALSE
                  /\ card' = [card EXCEPT ![t] = NoCard]
                  /\ selected_box' = [selected_box EXCEPT ![t] = None]
    /\ UNCHANGED <<sorting_thread, box_criteria, counterVars,
                   card_identified_url, handlerVars, rises, otherVars, stopped>>

\* lines 340-341 and 346-347: Card-Release.py, then the pause of 2 s
WRelease(t) ==
    /\ \/ wpc[t] = "dispense" /\ selected_box[t] = DefaultBox
       \/ wpc[t] = "release"
    /\ Run(t, "release", 0, IF selected_box[t] = DefaultBox THEN "capture" ELSE "close")

\* lines 348-349: Flapper-<selected_box>_Closed.py
WClose(t) ==
    /\ wpc[t] = "close"
    /\ Run(t, "close", selected_box[t], "capture")

\* a capture that shuts the gate of the bin behind it, whatever the bin
WCaptureShuts(t) ==
    /\ wpc[t] = "capture"
    /\ \E returncode \in {0, 1} :
          /\ wpc' = [wpc EXCEPT ![t] = IF returncode = 0 THEN "images" ELSE "count"]
          /\ acts' = [acts EXCEPT ![t] =
                         @ \o <<Act("capture", 0, returncode = 0),
                                Act("close", selected_box[t], TRUE)>>]
    /\ UNCHANGED <<sorting_active, sorting_thread, box_criteria, counterVars,
                   card_identified_url, card, selected_box, handlerVars, rises,
                   otherVars, stopped>>

\* lines 342 and 350: Card-Capture.py
WCapture(t) ==
    /\ wpc[t] = "capture"
    /\ Run(t, "capture", 0, "images")

\* line 354: update_images, which absorbs its own failures (221-228)
WImages(t) ==
    /\ wpc[t] = "images"
    /\ \E copied \in BOOLEAN :
          acts' = [acts EXCEPT ![t] = Append(@, Act("images", 0, copied))]
    /\ wpc' = [wpc EXCEPT ![t] = "count"]
    /\ UNCHANGED <<sorting_active, sorting_thread, box_criteria, counterVars,
                   card_identified_url, card, selected_box, handlerVars, rises,
                   otherVars, stopped>>

\* lines 339-354: the dispense scripts of the selected bin and the refresh
WDispense(t) ==
    \/ WOpen(t) \/ WRelease(t) \/ WClose(t) \/ WCapture(t) \/ WImages(t)

\* lines 361-365: count the cycle, persist, pause
WCount(t) ==
    /\ wpc[t] = "count"
    /\ move_count' = move_count + 1
    /\ monthly_move_count' = monthly_move_count + 1
    /\ counter_files' = [counter_files EXCEPT !.moves = move_count + 1,
                                              !.monthly = monthly_move_count + 1]
    /\ wpc' = [wpc EXCEPT ![t] = "test"]
    /\ acts' = [acts EXCEPT ![t] = <<>>]
    /\ UNCHANGED <<sorting_active, sorting_thread, box_criteria, failed_read_count,
                   card_identified_url, card, selected_box, handlerVars, rises,
                   otherVars, stopped>>

Worker(t) ==
    \/ WTest(t) \/ WFeed1(t) \/ WFeed2(t) \/ WRead(t)
    \/ WRoute(t) \/ WDispense(t) \/ WCount(t)

(***************************************************************************)
(* The control panel: index() (lines 367-456).  Requests are served by     *)
(* concurrent threads, so each branch is a sequence of steps, one per      *)
(* read or write of a global.                                              *)
(***************************************************************************)
\* the server hands a request to a thread of its own; the threads are alike,
\* so the request goes to the first one that serves nothing
Free(h) ==
    /\ hpc[h] = "idle"
    /\ \A g \in Handlers : g < h => hpc[g] # "idle"

\* a start branch that does not test the flag
HStartCheckBlind(h) ==
    /\ Free(h)
    /\ requests < MaxRequests
    /\ requests' = requests + 1
    /\ hpc' = [hpc EXCEPT ![h] = "start_set"]
    /\ UNCHANGED <<sorting_active, sorting_thread, box_criteria, counterVars,
                   card_identified_url, workerVars, joining, rises, otherVars,
                   stopped>>

\* lines 379-381: a POST with "start_sorting" arrives; if not sorting_active
HStartCheck(h) ==
    /\ Free(h)
    /\ requests < MaxRequests
    /\ requests' = requests + 1
    /\ hpc' = [hpc EXCEPT ![h] = IF ~sorting_active THEN "start_set" ELSE "start_noop"]
    /\ UNCHANGED <<sorting_active, sorting_thread, box_criteria, counterVars,
                   card_identified_url, workerVars, joining, rises, otherVars,
                   stopped>>

\* line 382: sorting_active = True
HStartSet(h) ==
    /\ hpc[h] = "start_set"
    /\ sorting_active' = TRUE
    /\ rises' = IF sorting_active THEN rises ELSE rises + 1
    /\ hpc' = [hpc EXCEPT ![h] = "start_new"]
    /\ UNCHANGED <<sorting_thread, box_criteria, counterVars,
                   card_identified_url, workerVars, joining, requests, otherVars,
                   stopped>>

\* line 383: sorting_thread = threading.Thread(target=sorting_loop, daemon=True)
HStartNew(h) ==
    /\ hpc[h] = "start_new"
    /\ LET t == CHOOSE u \in Threads \ Constructed :
                    \A v \in Threads \ Constructed : u <= v
       IN  /\ wpc' = [wpc EXCEPT ![t] = "created"]
           /\ sorting_thread' = t
    /\ hpc' = [hpc EXCEPT ![h] = "start_start"]
    /\ UNCHANGED <<sorting_active, box_criteria, counterVars,
                   card_identified_url, card, selected_box, acts, joining, rises,
                   requests, otherVars, stopped>>

\* line 384: sorting_thread.start(), on whatever the global holds now
HStartStart(h) ==
    /\ hpc[h] = "start_start"
    /\ IF sorting_thread = None
       THEN \* AttributeError: 'NoneType' object has no attribute 'start'
            /\ hpc' = [hpc EXCEPT ![h] = "error"]
            /\ UNCHANGED wpc
       ELSE IF wpc[sorting_thread] # "created"
       THEN \* RuntimeError: threads can only be started once
            /\ hpc' = [hpc EXCEPT ![h] = "error"]
            /\ UNCHANGED wpc
       ELSE /\ wpc' = [wpc EXCEPT ![sorting_thread] = "test"]
            /\ hpc' = [hpc EXCEPT ![h] = "idle"]
    /\ UNCHANGED <<sorting_active, sorting_thread, box_criteria, counterVars,
                   card_identified_url, card, selected_box, acts, joining, rises,
                   requests, otherVars, stopped>>

\* lines 386-387: a POST with "stop_sorting" arrives; sorting_active = False
HStopSet(h) ==
    /\ Free(h)
    /\ requests < MaxRequests
    /\ requests' = requests + 1
    /\ sorting_active' = FALSE
    /\ stopped' = stopped \cup Alive
    /\ hpc' = [hpc EXCEPT ![h] = "stop_check"]
    /\ UNCHANGED <<sorting_thread, box_criteria, counterVars,
                   card_identified_url, workerVars, joining, rises, otherVars>>

\* a stop branch that joins without testing the handle
HStopCheckBlind(h) ==
    /\ hpc[h] = "stop_check"
    /\ hpc' = [hpc EXCEPT ![h] = "stop_join"]
    /\ UNCHANGED <<sorting_active, sorting_thread, box_criteria, counterVars,
                   card_identified_url, workerVars, joining, rises, requests,
                   otherVars, stopped>>

\* line 388: if sorting_thread
HStopCheck(h) ==
    /\ hpc[h] = "stop_check"
    /\ hpc' = [hpc EXCEPT ![h] = IF sorting_thread # None THEN "stop_join" ELSE "stop_noop"]
    /\ UNCHANGED <<sorting_active, sorting_thread, box_criteria, counterVars,
                   card_identified_url, workerVars, joining, rises, requests,
                   otherVars, stopped>>

\* line 389: sorting_thread.join(timeout=5) is entered, on whatever the
\* global holds now
HStopJoin(h) ==
    /\ hpc[h] = "stop_join"
    /\ IF sorting_thread = None
       THEN \* AttributeError: 'NoneType' object has no attribute 'join'
            /\ hpc' = [hpc EXCEPT ![h] = "error"]
            /\ UNCHANGED joining
       ELSE IF wpc[sorting_thread] = "created"
       THEN \* RuntimeError: cannot join thread before it is started
            /\ hpc' = [hpc EXCEPT ![h] = "error"]
            /\ UNCHANGED joining
       ELSE /\ joining' = [joining EXCEPT ![h] = sorting_thread]
            /\ hpc' = [hpc EXCEPT ![h] = "stop_wait"]
    /\ UNCHANGED <<sorting_active, sorting_thread, box_criteria, counterVars,
                   card_identified_url, workerVars, rises, requests, otherVars,
                   stopped>>

\* line 389: join returns, because the thread ended or the 5 s ran out
HStopWait(h) ==
    /\ hpc[h] = "stop_wait"
    /\ \E timed_out \in BOOLEAN : timed_out \/ wpc[joining[h]] = "dead"
    /\ hpc' = [hpc EXCEPT ![h] = "stop_clear"]
    /\ UNCHANGED <<sorting_active, sorting_thread, box_criteria, counterVars,
                   card_identified_url, workerVars, joining, rises, requests,
                   otherVars, stopped>>

\* line 390: sorting_thread = None
HStopClear(h) ==
    /\ hpc[h] = "stop_clear"
    /\ sorting_thread' = None
    /\ joining' = [joining EXCEPT ![h] = None]
    /\ hpc' = [hpc EXCEPT ![h] = "idle"]
    /\ UNCHANGED <<sorting_active, box_criteria, counterVars,
                   card_identified_url, workerVars, rises, requests, otherVars,
                   stopped>>

\* lines 392-408: a POST with "submit_card" replaces the table under the lock
HSubmit(h) ==
    /\ Free(h)
    /\ requests < MaxRequests
    /\ requests' = requests + 1
    /\ \E new_criteria \in SubmitTables :
          /\ new_criteria # box_criteria
          /\ box_criteria' = new_criteria
    /\ UNCHANGED <<sorting_active, sorting_thread, counterVars,
                   card_identified_url, workerVars, hpc, joining, rises,
                   otherVars, stopped>>

\* lines 445-456: the branch had nothing to do and the page is rendered
HReturn(h) ==
    /\ hpc[h] \in {"start_noop", "stop_noop"}
    /\ hpc' = [hpc EXCEPT ![h] = "idle"]
    /\ UNCHANGED <<sorting_active, sorting_thread, box_criteria, counterVars,
                   card_identified_url, workerVars, joining, rises, requests,
                   otherVars, stopped>>

\* an exception leaves index(): the request ends with a server error
HError(h) ==
    /\ hpc[h] = "error"
    /\ hpc' = [hpc EXCEPT ![h] = "idle"]
    /\ UNCHANGED <<sorting_active, sorting_thread, box_criteria, counterVars,
                   card_identified_url, workerVars, joining, rises, requests,
                   otherVars, stopped>>

\* the steps a request takes when no other request is served beside it
Serial(h) ==
    \/ HStartCheck(h) \/ HStartSet(h) \/ HStartNew(h) \/ HStartStart(h)
    \/ HStopSet(h) \/ HStopCheck(h) \/ HStopJoin(h) \/ HStopWait(h)
    \/ HStopClear(h) \/ HSubmit(h) \/ HReturn(h)

Handler(h) == Serial(h) \/ HError(h)

(***************************************************************************)
(* The lock (line 23) and its two users, step by step: the routing loop    *)
(* (lines 324-334) reads the global table once per bin, and the submit     *)
(* branch (lines 392-408) builds a table from the form and assigns it.     *)
(***************************************************************************)
\* lock = threading.Lock(): held by nobody
Unlocked == <<"nobody", 0>>

\* request.form: field name -> text; a field name is <<prefix, bin>>
FormGet(form, key) == Get(form, key, <<>>)

ColorBoxes == <<"W", "U", "B", "R", "G", "C">>

\* a table that holds the bins the form names only
FromFormNamed(form) ==
    [i \in {k[2] : k \in DOMAIN form} |->
        [name |-> Strip(FormGet(form, <<"name", i>>)),
         type |-> Strip(FormGet(form, <<"type", i>>)),
         colors |-> SelectSeq(ColorBoxes, LAMBDA c : FormGet(form, <<c, i>>) # <<>>),
         cmc |-> Strip(FormGet(form, <<"cmc", i>>)),
         set_symbol |-> Strip(FormGet(form, <<"set_symbol", i>>))]]

\* lines 394-406: new_criteria[i] for i in range(1, 11), texts stripped
FromForm(form) ==
    [i \in 1..NumBoxes |->
        [name |-> Strip(FormGet(form, <<"name", i>>)),
         type |-> Strip(FormGet(form, <<"type", i>>)),
         colors |-> SelectSeq(ColorBoxes, LAMBDA c : FormGet(form, <<c, i>>) # <<>>),
         cmc |-> Strip(FormGet(form, <<"cmc", i>>)),
         set_symbol |-> Strip(FormGet(form, <<"set_symbol", i>>))]]

\* the forms the panel posts: the browser sends the fields the operator
\* filled (checked boxes as "on"), with the blanks typed around a text
Forms ==
    { <<"type", 3>> :> <<" ","C","r","e","a","t","u","r","e"," ">>,
      (<<"R", 2>> :> <<"o","n">>) @@ (<<"R", 10>> :> <<"o","n">>)
         @@ (<<"name", 2>> :> <<" ">>) }

\* line 324 and line 325: selected_box = None; with lock: (acquire)
WLock(t) ==
    /\ wpc[t] = "route"
    /\ lock = Unlocked
    /\ lock' = <<"worker", t>>
    /\ wpc' = [wpc EXCEPT ![t] = "scan"]
    /\ scan' = [scan EXCEPT ![t] = 1]
    /\ seen' = [seen EXCEPT ![t] = {}]
    /\ selected_box' = [selected_box EXCEPT ![t] = None]
    /\ UNCHANGED <<sorting_active, sorting_thread, box_criteria, counterVars,
                   card_identified_url, card, acts, handlerVars, rises, envVars,
                   stopped, built, hookVars>>

\* lines 326-334: one pass of the for loop, on the table the global names
\* now; a match, or the end of the range, leaves the with block
WScan(t) ==
    /\ wpc[t] = "scan"
    /\ LET i == scan[t]
           crit == CriteriaOf(box_criteria, i)
           match == matches_criteria(card[t], crit)
           box == IF match THEN i ELSE DefaultBox
       IN  /\ seen' = [seen EXCEPT ![t] = @ \cup {box_criteria}]
           /\ IF match \/ i = NumBoxes
              THEN /\ selected_box' = [selected_box EXCEPT ![t] = box]
                   /\ lock' = Unlocked
                   /\ scan' = [scan EXCEPT ![t] = 0]
                   /\ wpc' = [wpc EXCEPT ![t] = "dispense"]
                   /\ acts' = [acts EXCEPT ![t] = Append(@, Act("route", box, TRUE))]
              ELSE /\ scan' = [scan EXCEPT ![t] = i + 1]
                   /\ UNCHANGED <<selected_box, lock, wpc, acts>>
    /\ UNCHANGED <<sorting_active, sorting_thread, box_criteria, counterVars,
                   card_identified_url, card, handlerVars, rises, envVars,
                   stopped, built, hookVars>>

\* lines 392-406: a POST with "submit_card" arrives; new_criteria is built
HSubBuild(h) ==
    /\ Free(h)
    /\ requests < MaxRequests
    /\ requests' = requests + 1
    /\ \E form \in Forms : built' = [built EXCEPT ![h] = FromForm(form)]
    /\ hpc' = [hpc EXCEPT ![h] = "submit_lock"]
    /\ UNCHANGED <<sorting_active, sorting_thread, box_criteria, counterVars,
                   card_identified_url, workerVars, joining, rises, envVars,
                   stopped, lock, scan, seen, hookVars>>

\* a submit branch that takes the lock without waiting for it
HSubLockBarges(h) ==
    /\ hpc[h] = "submit_lock"
    /\ lock' = <<"handler", h>>
    /\ hpc' = [hpc EXCEPT ![h] = "submit_set"]
    /\ UNCHANGED <<sorting_active, sorting_thread, box_criteria, counterVars,
                   card_identified_url, workerVars, joining, rises, requests,
                   envVars, stopped, scan, seen, built, hookVars>>

\* line 407: with lock: (acquire, once nobody holds it)
HSubLock(h) ==
    /\ hpc[h] = "submit_lock"
    /\ lock = Unlocked
    /\ lock' = <<"handler", h>>
    /\ hpc' = [hpc EXCEPT ![h] = "submit_set"]
    /\ UNCHANGED <<sorting_active, sorting_thread, box_criteria, counterVars,
                   card_identified_url, workerVars, joining, rises, requests,
                   envVars, stopped, scan, seen, built, hookVars>>

\* line 408: box_criteria = new_criteria
HSubSet(h) ==
    /\ hpc[h] = "submit_set"
    /\ box_criteria' = built[h]
    /\ hpc' = [hpc EXCEPT ![h] = "submit_unlock"]
    /\ UNCHANGED <<sorting_active, sorting_thread, counterVars,
                   card_identified_url, workerVars, joining, rises, requests,
                   envVars, stopped, panelVars>>

\* the with block ends (release); lines 409-456: the table is printed and
\* the page rendered
HSubUnlock(h) ==
    /\ hpc[h] = "submit_unlock"
    /\ lock' = Unlocked
    /\ built' = [built EXCEPT ![h] = EmptyDict]
    /\ hpc' = [hpc EXCEPT ![h] = "idle"]
    /\ UNCHANGED <<sorting_active, sorting_thread, box_criteria, counterVars,
                   card_identified_url, workerVars, joining, rises, requests,
                   envVars, stopped, scan, seen, hookVars>>

Submit(h) == HSubBuild(h) \/ HSubLock(h) \/ HSubSet(h) \/ HSubUnlock(h)

(***************************************************************************)
(* The counters, step by step (lines 361-365 and the save helpers, lines   *)
(* 110-127), and the panel's hooks that touch them (lines 423-442).        *)
(* x += 1 on a global is a load and a store, and a save is a file write    *)
(* that may raise OSError.                                                 *)
(***************************************************************************)
\* line 361: move_count += 1, the load
WLoadMoves(t) ==
    /\ wpc[t] = "count"
    /\ reg' = [reg EXCEPT ![t] = move_count]
    /\ wpc' = [wpc EXCEPT ![t] = "store_moves"]
    /\ UNCHANGED <<sorting_active, sorting_thread, box_criteria, counterVars,
                   card_identified_url, card, selected_box, acts, handlerVars,
                   rises, envVars, stopped, lockVars, saving, manual>>

\* line 361: move_count += 1, the store
WStoreMoves(t) ==
    /\ wpc[t] = "store_moves"
    /\ move_count' = reg[t] + 1
    /\ wpc' = [wpc EXCEPT ![t] = "load_monthly"]
    /\ UNCHANGED <<sorting_active, sorting_thread, box_criteria,
                   monthly_move_count, failed_read_count, counter_files,
                   card_identified_url, card, selected_box, acts, handlerVars,
                   rises, envVars, stopped, panelVars>>

\* line 362: monthly_move_count += 1, the load
WLoadMonthly(t) ==
    /\ wpc[t] = "load_monthly"
    /\ reg' = [reg EXCEPT ![t] = monthly_move_count]
    /\ wpc' = [wpc EXCEPT ![t] = "store_monthly"]
    /\ UNCHANGED <<sorting_active, sorting_thread, box_criteria, counterVars,
                   card_identified_url, card, selected_box, acts, handlerVars,
                   rises, envVars, stopped, lockVars, saving, manual>>

\* line 362: monthly_move_count += 1, the store
WStoreMonthly(t) ==
    /\ wpc[t] = "store_monthly"
    /\ monthly_move_count' = reg[t] + 1
    /\ reg' = [reg EXCEPT ![t] = 0]
    /\ wpc' = [wpc EXCEPT ![t] = "save_moves"]
    /\ UNCHANGED <<sorting_active, sorting_thread, box_criteria, move_count,
                   failed_read_count, counter_files, card_identified_url, card,
                   selected_box, acts, handlerVars, rises, envVars, stopped,
                   lockVars, saving, manual>>

\* the thread ends on an exception that nothing in sorting_loop catches
Dies(t) ==
    /\ wpc' = [wpc EXCEPT ![t] = "dead"]
    /\ card' = [card EXCEPT ![t] = NoCard]
    /\ selected_box' = [selected_box EXCEPT ![t] = None]
    /\ acts' = [acts EXCEPT ![t] = <<>>]

\* line 363: save_move_count(move_count), outside the try block: the file
\* is written, or open/write raises and the exception leaves sorting_loop
WSaveMoves(t) ==
    /\ wpc[t] = "save_moves"
    /\ \E written \in BOOLEAN :
          IF written
          THEN /\ counter_files' = [counter_files EXCEPT !.moves = move_count]
               /\ wpc' = [wpc EXCEPT ![t] = "save_monthly"]
               /\ UNCHANGED <<card, selected_box, acts>>
          ELSE /\ Dies(t)
               /\ UNCHANGED counter_files
    /\ UNCHANGED <<sorting_active, sorting_thread, box_criteria, move_count,
                   monthly_move_count, failed_read_count, card_identified_url,
                   handlerVars, rises, envVars, stopped, panelVars>>

\* lines 364-365: save_monthly_move_count(monthly_move_count), likewise,
\* and the pause before the flag is tested again
WSaveMonthly(t) ==
    /\ wpc[t] = "save_monthly"
    /\ \E written \in BOOLEAN :
          IF written
          THEN /\ counter_files' = [counter_files EXCEPT !.monthly = monthly_move_count]
               /\ wpc' = [wpc EXCEPT ![t] = "test"]
               /\ acts' = [acts EXCEPT ![t] = <<>>]
               /\ UNCHANGED <<card, selected_box>>
          ELSE /\ Dies(t)
               /\ UNCHANGED counter_files
    /\ UNCHANGED <<sorting_active, sorting_thread, box_criteria, move_count,
                   monthly_move_count, failed_read_count, card_identified_url,
                   handlerVars, rises, envVars, stopped, panelVars>>

WCountSteps(t) ==
    \/ WLoadMoves(t) \/ WStoreMoves(t) \/ WLoadMonthly(t) \/ WStoreMonthly(t)
    \/ WSaveMoves(t) \/ WSaveMonthly(t)

\* a reset of the monthly counter that resets the lifetime counter as well
HClearMonthlyBoth(h) ==
    /\ Free(h)
    /\ requests < MaxRequests
    /\ requests' = requests + 1
    /\ monthly_move_count' = 0
    /\ move_count' = 0
    /\ hpc' = [hpc EXCEPT ![h] = "clear_arg"]
    /\ UNCHANGED <<sorting_active, sorting_thread, box_criteria,
                   failed_read_count, counter_files, card_identified_url,
                   workerVars, joining, rises, envVars, stopped, panelVars>>

\* lines 423-425: a POST with "clear_monthly_count": monthly_move_count = 0
HClearMonthly(h) ==
    /\ Free(h)
    /\ requests < MaxRequests
    /\ requests' = requests + 1
    /\ monthly_move_count' = 0
    /\ hpc' = [hpc EXCEPT ![h] = "clear_arg"]
    /\ UNCHANGED <<sorting_active, sorting_thread, box_criteria, move_count,
                   failed_read_count, counter_files, card_identified_url,
                   workerVars, joining, rises, envVars, stopped, panelVars>>

\* line 426: the argument of save_monthly_move_count(monthly_move_count)
HClearArg(h) ==
    /\ hpc[h] = "clear_arg"
    /\ saving' = [saving EXCEPT ![h] = monthly_move_count]
    /\ hpc' = [hpc EXCEPT ![h] = "clear_write"]
    /\ UNCHANGED <<sorting_active, sorting_thread, box_criteria, counterVars,
                   card_identified_url, workerVars, joining, rises, requests,
                   envVars, stopped, lockVars, manual, reg>>

\* lines 125-127: the file is written, or open/write raises and the request
\* ends with a server error
HClearWrite(h) ==
    /\ hpc[h] = "clear_write"
    /\ \E written \in BOOLEAN :
          IF written
          THEN /\ counter_files' = [counter_files EXCEPT !.monthly = saving[h]]
               /\ hpc' = [hpc EXCEPT ![h] = "idle"]
          ELSE /\ hpc' = [hpc EXCEPT ![h] = "error"]
               /\ UNCHANGED counter_files
    /\ saving' = [saving EXCEPT ![h] = 0]
    /\ UNCHANGED <<sorting_active, sorting_thread, box_criteria, move_count,
                   monthly_move_count, failed_read_count, card_identified_url,
                   workerVars, joining, rises, requests, envVars, stopped,
                   lockVars, manual, reg>>

\* lines 429-442: a POST with "clear_failed_count": the file is written
\* with 0; failed_read_count = 0 binds a local of index(), which names no
\* such global; the archived images are deleted
HClearFailed(h) ==
    /\ Free(h)
    /\ requests < MaxRequests
    /\ requests' = requests + 1
    /\ \E written \in BOOLEAN :
          IF written
          THEN /\ counter_files' = [counter_files EXCEPT !.failed = 0]
               /\ UNCHANGED hpc
          ELSE /\ hpc' = [hpc EXCEPT ![h] = "error"]
               /\ UNCHANGED counter_files
    /\ UNCHANGED <<sorting_active, sorting_thread, box_criteria, move_count,
                   monthly_move_count, failed_read_count, card_identified_url,
                   workerVars, joining, rises, envVars, stopped, panelVars>>

\* the scripts under scripts/ that drive an actuator
PanelScripts == {"feed", "open", "release", "capture"}

NoScript == [script |-> "none", active |-> FALSE]

\* lines 605-631: GET /run_script?script=scripts/<name>: the script is run
\* if it lies under scripts/ and exists; the flag is not looked at
run_script(h) ==
    /\ Free(h)
    /\ requests < MaxRequests
    /\ requests' = requests + 1
    /\ \E script \in PanelScripts :
          manual' = [script |-> script, active |-> sorting_active]
    /\ UNCHANGED <<sorting_active, sorting_thread, box_criteria, counterVars,
                   card_identified_url, workerVars, hpc, joining, rises, envVars,
                   stopped, lockVars, saving, reg>>

\* the hooks of the panel beside start, stop and submit
Hooks(h) ==
    \/ HClearMonthly(h) \/ HClearArg(h) \/ HClearWrite(h)
    \/ HClearFailed(h) \/ run_script(h) \/ HError(h)

\* no request is being served and nobody holds the lock
PanelInit ==
    /\ lock = Unlocked
    /\ scan = [t \in Threads |-> 0]
    /\ seen = [t \in Threads |-> {}]
    /\ built = [h \in Handlers |-> EmptyDict]
    /\ saving = [h \in Handlers |-> 0]
    /\ manual = NoScript
    /\ reg = [t \in Threads |-> 0]

(***************************************************************************)
(* scripts/Feed-Card.py: one run of the feed script, from line 156 on      *)
(* (pigpio is connected, all motor pins were written low).  The main flow  *)
(* and the stepping tasks are threads of one process; time is counted in   *)
(* polls of wait_for_level_stable.                                         *)
(***************************************************************************)
Motors == 1..3

\* the Thread objects the main flow constructs: motors 1, 2, 3 of Phase 1
\* (lines 163-178) and motors 1, 2 of Phase 2 (lines 217-227)
Tasks == 1..5
NoTask == 0

\* args of each task: motor, sequence, reverse
TaskMotor == <<1, 2, 3, 1, 2>>
TaskSequence == <<"FULLSPEED", "HALFSPEED", "FULLSPEED", "HALFSPEED", "HALFSPEED">>
TaskReverse == <<FALSE, TRUE, FALSE, TRUE, FALSE>>

\* lines 41-50: one pattern per step
STEPPER_SEQ_FULLSPEED ==
    << <<1, 0, 0, 0>>, <<1, 1, 0, 0>>, <<0, 1, 0, 0>>, <<0, 1, 1, 0>>,
       <<0, 0, 1, 0>>, <<0, 0, 1, 1>>, <<0, 0, 0, 1>>, <<1, 0, 0, 1>> >>

\* lines 52-69: each pattern twice
STEPPER_SEQ_HALFSPEED ==
    [i \in 1..16 |-> STEPPER_SEQ_FULLSPEED[(i + 1) \div 2]]

\* list(reversed(seq))
Reversed(seq) == [i \in 1..Len(seq) |-> seq[Len(seq) + 1 - i]]

\* lines 114-116: the patterns a task writes, in the order it writes them
StepsOf(k) ==
    LET sequence == IF TaskSequence[k] = "FULLSPEED" THEN STEPPER_SEQ_FULLSPEED
                    ELSE STEPPER_SEQ_HALFSPEED
    IN  IF TaskReverse[k] THEN Reversed(sequence) ELSE sequence

\* the rotor position a pattern holds, in eighths of the electrical turn
Angle(step) == CHOOSE a \in 0..7 : STEPPER_SEQ_FULLSPEED[a + 1] = step

\* the sense in which a list of patterns, written round and round, turns
\* the rotor: 1 with rising positions, -1 with falling ones, 0 otherwise
Sense(seq) ==
    LET turn(i) == (Angle(seq[(i % Len(seq)) + 1]) - Angle(seq[i]) + 8) % 8
        turns == {turn(i) : i \in 1..Len(seq)}
    IN  IF turns \subseteq {0, 1} /\ 1 \in turns THEN 1
        ELSE IF turns \subseteq {0, 7} /\ 7 \in turns THEN -1
        ELSE 0

SENSOR_BLOCKED_LEVEL == 1
Levels == {0, 1}

\* the three waits: which sensor, which level, where the flow goes on
Wait(site) ==
    CASE site = "wait_entry" ->
           [sensor |-> 1, target |-> SENSOR_BLOCKED_LEVEL,
            ok |-> "entry_blocked", timeout |-> "timeout_entry"]
      [] site = "wait_clear" ->
           [sensor |-> 1, target |-> IF SENSOR_BLOCKED_LEVEL = 1 THEN 0 ELSE 1,
            ok |-> "entry_clear", timeout |-> "timeout_clear"]
      [] site = "wait_exit" ->
           [sensor |-> 2, target |-> SENSOR_BLOCKED_LEVEL,
            ok |-> "exit_blocked", timeout |-> "timeout_exit"]

WaitSites == {"wait_entry", "wait_clear", "wait_exit"}

\* as Stops, with all three motors stopped once the entry sensor is clear
StopsAllAtClear(site) ==
    CASE site = "entry_blocked" -> <<1>>
      [] site = "settled" -> <<2>>
      [] site = "entry_clear" -> <<1, 2, 3>>
      [] site = "exit_blocked" -> <<3>>
      [] site \in {"timeout_entry", "timeout_clear"} -> <<1, 2, 3>>
      [] site = "timeout_exit" -> <<3>>
      [] OTHER -> <<>>

\* the stop_motor calls that follow each outcome, in order
Stops(site) ==
    CASE site = "entry_blocked" -> <<1>>
      [] site = "settled" -> <<2>>
      [] site = "entry_clear" -> <<1, 2>>
      [] site = "exit_blocked" -> <<3>>
      [] site \in {"timeout_entry", "timeout_clear"} -> <<1, 2, 3>>
      [] site = "timeout_exit" -> <<3>>
      [] OTHER -> <<>>

\* sys.exit(0) after the exit sensor, sys.exit(1) after a timeout
ExitAlwaysZero(site) == IF site = "exit_blocked" THEN 0 ELSE 0

ExitStatus(site) == IF site = "exit_blocked" THEN 0 ELSE 1

ExitSites == {"exit_blocked", "timeout_entry", "timeout_clear", "timeout_exit"}

\* the main flow comes to a place of the script
Arrive(site) ==
    /\ f_pc' = site
    /\ f_todo' = Stops(site)
    /\ f_sub' = "set"
    /\ f_trace' = Append(f_trace, site)
    /\ elapsed' = 0
    /\ stable_start' = -1

Running == f_exit = -1

TaskAlive(k) == tk_pc[k] \in {"outer", "inner", "write"}

\* lines 161-185: the three tasks are constructed and started, and the wait
\* for sensor 1 blocked begins
FStart ==
    /\ Running
    /\ f_pc = "idle"
    /\ motor_thread' = [m \in Motors |-> m]
    /\ tk_pc' = [k \in Tasks |-> IF k \in {1, 2, 3} THEN "outer" ELSE tk_pc[k]]
    /\ Arrive("wait_entry")
    /\ UNCHANGED <<f_exit, motor_stop, pins, f_late, coreVars, readVars, waitVars>>

\* lines 141-151: one turn of the loop of wait_for_level_stable: the
\* deadline is tested, the pin is read, and the poll interval slept
FPoll ==
    /\ Running
    /\ f_pc \in WaitSites
    /\ IF elapsed >= TimeoutPolls
       THEN Arrive(Wait(f_pc).timeout)
       ELSE \E val \in Levels :
               IF val = Wait(f_pc).target
               THEN IF stable_start = -1
                    THEN /\ stable_start' = elapsed
                         /\ elapsed' = elapsed + 1
                         /\ UNCHANGED <<f_pc, f_todo, f_sub, f_trace>>
                    ELSE IF elapsed - stable_start >= StablePolls
                    THEN Arrive(Wait(f_pc).ok)
                    ELSE /\ elapsed' = elapsed + 1
                         /\ UNCHANGED <<f_pc, f_todo, f_sub, f_trace, stable_start>>
               ELSE /\ stable_start' = -1
                    /\ elapsed' = elapsed + 1
                    /\ UNCHANGED <<f_pc, f_todo, f_sub, f_trace>>
    /\ UNCHANGED <<f_exit, motor_thread, motor_stop, tk_pc, pins, f_late,
                   coreVars, readVars, waitVars>>

\* lines 126-127: stop_event.set(), and whether there is a live thread to join
FStopSet ==
    /\ Running
    /\ f_todo # <<>>
    /\ f_sub = "set"
    /\ LET m == Head(f_todo)
           thread_obj == motor_thread[m]
       IN  /\ motor_stop' = [motor_stop EXCEPT ![m] = TRUE]
           /\ f_sub' = IF thread_obj # NoTask /\ TaskAlive(thread_obj)
                       THEN "join" ELSE "zero"
    /\ UNCHANGED <<f_pc, f_todo, f_exit, motor_thread, tk_pc, pins, elapsed,
                   stable_start, f_late, f_trace, coreVars, readVars, waitVars>>

\* line 128: thread_obj.join(timeout=2.0) returns: the task ended, or the
\* two seconds ran out
FStopJoin ==
    /\ Running
    /\ f_todo # <<>>
    /\ f_sub = "join"
    /\ LET thread_obj == motor_thread[Head(f_todo)]
       IN  \E timed_out \in BOOLEAN :
              /\ timed_out \/ ~TaskAlive(thread_obj)
              /\ f_late' = IF TaskAlive(thread_obj) THEN f_late \cup {thread_obj}
                           ELSE f_late
    /\ f_sub' = "zero"
    /\ UNCHANGED <<f_pc, f_todo, f_exit, motor_thread, motor_stop, tk_pc, pins,
                   elapsed, stable_start, f_trace, coreVars, readVars, waitVars>>

\* lines 129-130: the motor's pins are written low, and stop_motor returns
FStopZero ==
    /\ Running
    /\ f_todo # <<>>
    /\ f_sub = "zero"
    /\ pins' = [pins EXCEPT ![Head(f_todo)] = 0]
    /\ f_todo' = Tail(f_todo)
    /\ f_sub' = "set"
    /\ UNCHANGED <<f_pc, f_exit, motor_thread, motor_stop, tk_pc, elapsed,
                   stable_start, f_late, f_trace, coreVars, readVars, waitVars>>

\* lines 201-206: time.sleep(MOTOR2_EXTRA_FEED_SEC), after motor 1 was stopped
FSettle ==
    /\ Running
    /\ f_pc = "entry_blocked"
    /\ f_todo = <<>>
    /\ Arrive("settled")
    /\ UNCHANGED <<f_exit, motor_thread, motor_stop, tk_pc, pins, f_late,
                   coreVars, readVars, waitVars>>

\* lines 212-215: motor1_stop.clear(); motor2_stop.clear()
FClear ==
    /\ Running
    /\ f_pc = "settled"
    /\ f_todo = <<>>
    /\ motor_stop' = [m \in Motors |-> IF m \in {1, 2} THEN FALSE ELSE motor_stop[m]]
    /\ Arrive("reverse")
    /\ UNCHANGED <<f_exit, motor_thread, tk_pc, pins, f_late, coreVars, readVars, waitVars>>

\* lines 217-238: the two Phase 2 tasks are constructed and started, and
\* the wait for sensor 1 clear begins
FRestart ==
    /\ Running
    /\ f_pc = "reverse"
    /\ motor_thread' = [motor_thread EXCEPT ![1] = 4, ![2] = 5]
    /\ tk_pc' = [tk_pc EXCEPT ![4] = "outer", ![5] = "outer"]
    /\ Arrive("wait_clear")
    /\ UNCHANGED <<f_exit, motor_stop, pins, f_late, coreVars, readVars, waitVars>>

\* lines 252-254: motors 1 and 2 were stopped; the wait for sensor 2 begins
FToExit ==
    /\ Running
    /\ f_pc = "entry_clear"
    /\ f_todo = <<>>
    /\ Arrive("wait_exit")
    /\ UNCHANGED <<f_exit, motor_thread, motor_stop, tk_pc, pins, f_late,
                   coreVars, readVars, waitVars>>

\* lines 191-193, 244-246, 258-260, 265-267: pi.stop(), the status is
\* printed, sys.exit: the process ends and its daemon threads with it
FExit ==
    /\ Running
    /\ f_pc \in ExitSites
    /\ f_todo = <<>>
    /\ f_exit' = ExitStatus(f_pc)
    /\ f_pc' = "done"
    /\ f_trace' = Append(f_trace, "done")
    /\ UNCHANGED <<f_todo, f_sub, motor_thread, motor_stop, tk_pc, pins, elapsed,
                   stable_start, f_late, coreVars, readVars, waitVars>>

FeedMain ==
    \/ FStart \/ FPoll \/ FStopSet \/ FStopJoin \/ FStopZero
    \/ FSettle \/ FClear \/ FRestart \/ FToExit \/ FExit

\* line 118: while not stop_event.is_set()
TkOuter(k) ==
    /\ Running
    /\ tk_pc[k] = "outer"
    /\ tk_pc' = [tk_pc EXCEPT ![k] = IF motor_stop[TaskMotor[k]] THEN "dead" ELSE "inner"]
    /\ UNCHANGED <<f_pc, f_todo, f_sub, f_exit, motor_thread, motor_stop, pins,
                   elapsed, stable_start, f_late, f_trace, coreVars, readVars, waitVars>>

\* lines 119-121: the next step of the sequence: if stop_event.is_set(): break
TkInner(k) ==
    /\ Running
    /\ tk_pc[k] = "inner"
    /\ tk_pc' = [tk_pc EXCEPT ![k] = IF motor_stop[TaskMotor[k]] THEN "outer" ELSE "write"]
    /\ UNCHANGED <<f_pc, f_todo, f_sub, f_exit, motor_thread, motor_stop, pins,
                   elapsed, stable_start, f_late, f_trace, coreVars, readVars, waitVars>>

\* lines 122-123: motor_step writes the pattern, time.sleep(speed_delay);
\* then the for loop has a further step, or the sequence is through
TkWrite(k) ==
    /\ Running
    /\ tk_pc[k] = "write"
    /\ pins' = [pins EXCEPT ![TaskMotor[k]] = k]
    /\ \E more \in BOOLEAN :
          tk_pc' = [tk_pc EXCEPT ![k] = IF more THEN "inner" ELSE "outer"]
    /\ UNCHANGED <<f_pc, f_todo, f_sub, f_exit, motor_thread, motor_stop,
                   elapsed, stable_start, f_late, f_trace, coreVars, readVars, waitVars>>

Task(k) == TkOuter(k) \/ TkInner(k) \/ TkWrite(k)

\* lines 156-159: no thread yet, the three events clear
FeedInit ==
    /\ f_pc = "idle"
    /\ f_todo = <<>>
    /\ f_sub = "set"
    /\ f_exit = -1
    /\ motor_thread = [m \in Motors |-> NoTask]
    /\ motor_stop = [m \in Motors |-> FALSE]
    /\ tk_pc = [k \in Tasks |-> "none"]
    /\ pins = [m \in Motors |-> 0]
    /\ elapsed = 0
    /\ stable_start = -1
    /\ f_late = {}
    /\ f_trace = <<"idle">>

NextFeed == FeedMain \/ \E k \in Tasks : Task(k)

(***************************************************************************)
(* scripts/Feed-Card.py, wait_for_level_stable (lines 135-151): one call,  *)
(* with the clock and the pin.  Time is counted in units of which          *)
(* PollUnits make one poll interval; it passes while the call sleeps, and  *)
(* within each unit the pin may change its level.                          *)
(***************************************************************************)
\* poll, stable_required and timeout_sec in units
PollInterval == PollUnits
StableRequired == StablePolls * PollUnits
TimeoutSec == TimeoutPolls * PollUnits

Max(a, b) == IF a >= b THEN a ELSE b

\* lines 136-139: deadline = time.time() + timeout_sec; stable_start = None
WsCall ==
    /\ ws_pc = "idle"
    /\ \E target_level \in Levels : ws_target' = target_level
    /\ ws_deadline' = ws_now + TimeoutSec
    /\ ws_start' = -1
    /\ ws_pc' = "test"
    /\ UNCHANGED <<ws_now, ws_slept, ws_level, ws_result, ws_reads, ws_hold,
                   ws_best, coreVars, readVars, feedVars>>

\* lines 141 and 151: while time.time() < deadline, else return False
WsTest ==
    /\ ws_pc = "test"
    /\ IF ws_now < ws_deadline
       THEN ws_pc' = "read" /\ UNCHANGED ws_result
       ELSE ws_pc' = "done" /\ ws_result' = "false"
    /\ UNCHANGED <<ws_target, ws_now, ws_deadline, ws_start, ws_slept, ws_level,
                   ws_reads, ws_hold, ws_best, coreVars, readVars, feedVars>>

\* as WsRead, with stable_start kept when the level deviates
WsReadKeeps ==
    /\ ws_pc = "read"
    /\ ws_reads' = Append(ws_reads, [at |-> ws_now, val |-> ws_level])
    /\ IF ws_level = ws_target
       THEN IF ws_start = -1
            THEN ws_start' = ws_now /\ ws_pc' = "sleep" /\ UNCHANGED ws_result
            ELSE IF ws_now - ws_start >= StableRequired
            THEN ws_pc' = "done" /\ ws_result' = "true" /\ UNCHANGED ws_start
            ELSE ws_pc' = "sleep" /\ UNCHANGED <<ws_start, ws_result>>
       ELSE ws_pc' = "sleep" /\ UNCHANGED <<ws_start, ws_result>>
    /\ ws_slept' = 0
    /\ UNCHANGED <<ws_target, ws_now, ws_deadline, ws_level, ws_hold, ws_best,
                   coreVars, readVars, feedVars>>

\* as WsRead, with > for >= in the test of the stable time
WsReadStrict ==
    /\ ws_pc = "read"
    /\ ws_reads' = Append(ws_reads, [at |-> ws_now, val |-> ws_level])
    /\ IF ws_level = ws_target
       THEN IF ws_start = -1
            THEN ws_start' = ws_now /\ ws_pc' = "sleep" /\ UNCHANGED ws_result
            ELSE IF ws_now - ws_start > StableRequired
            THEN ws_pc' = "done" /\ ws_result' = "true" /\ UNCHANGED ws_start
            ELSE ws_pc' = "sleep" /\ UNCHANGED <<ws_start, ws_result>>
       ELSE ws_start' = -1 /\ ws_pc' = "sleep" /\ UNCHANGED ws_result
    /\ ws_slept' = 0
    /\ UNCHANGED <<ws_target, ws_now, ws_deadline, ws_level, ws_hold, ws_best,
                   coreVars, readVars, feedVars>>

\* lines 142-148: val = pi.read(pin) and what follows from it
WsRead ==
    /\ ws_pc = "read"
    /\ ws_reads' = Append(ws_reads, [at |-> ws_now, val |-> ws_level])
    /\ IF ws_level = ws_target
       THEN IF ws_start = -1
            THEN ws_start' = ws_now /\ ws_pc' = "sleep" /\ UNCHANGED ws_result
            ELSE IF ws_now - ws_start >= StableRequired
            THEN ws_pc' = "done" /\ ws_result' = "true" /\ UNCHANGED ws_start
            ELSE ws_pc' = "sleep" /\ UNCHANGED <<ws_start, ws_result>>
       ELSE ws_start' = -1 /\ ws_pc' = "sleep" /\ UNCHANGED ws_result
    /\ ws_slept' = 0
    /\ UNCHANGED <<ws_target, ws_now, ws_deadline, ws_level, ws_hold, ws_best,
                   coreVars, readVars, feedVars>>

\* line 150: time.sleep(poll) is over, after the poll interval or one unit more
WsWake ==
    /\ ws_pc = "sleep"
    /\ ws_slept >= PollInterval
    /\ ws_pc' = "test"
    /\ UNCHANGED <<ws_target, ws_now, ws_deadline, ws_start, ws_slept, ws_level,
                   ws_result, ws_reads, ws_hold, ws_best, coreVars, readVars,
                   feedVars>>

\* a unit of time passes while the call sleeps; within it the pin keeps its
\* level or changes it
WsTick ==
    /\ ws_pc = "sleep"
    /\ ws_slept <= PollInterval
    /\ ws_now' = ws_now + 1
    /\ ws_slept' = ws_slept + 1
    /\ \E level \in Levels :
          /\ ws_level' = level
          /\ ws_hold' = IF ws_level = ws_target /\ level = ws_target
                        THEN ws_hold + 1 ELSE 0
    /\ ws_best' = Max(ws_best, ws_hold')
    /\ UNCHANGED <<ws_pc, ws_target, ws_deadline, ws_start, ws_result, ws_reads,
                   coreVars, readVars, feedVars>>

WaitInit ==
    /\ ws_pc = "idle"
    /\ ws_target = SENSOR_BLOCKED_LEVEL
    /\ ws_now = 0
    /\ ws_deadline = 0
    /\ ws_start = -1
    /\ ws_slept = 0
    /\ ws_level = 0
    /\ ws_result = "none"
    /\ ws_reads = <<>>
    /\ ws_hold = 0
    /\ ws_best = 0

NextWait == WsCall \/ WsTest \/ WsRead \/ WsWake \/ WsTick

(***************************************************************************)
(* scripts/Read-Card.py: one run of the identification script.  Texts are  *)
(* sequences of characters.                                                *)
(***************************************************************************)
Unknown == <<"U","n","k","n","o","w","n">>

\* str.upper()
Upper(s) == [i \in 1..Len(s) |-> UpperChar(s[i])]

IsDigit(c) == c \in Range(DigitChars)

\* re.search(r'(\d+)', s).group(1): the first run of digits, <<>> if none
FirstDigits(s) ==
    LET at == {i \in 1..Len(s) : IsDigit(s[i])}
    IN  IF at = {} THEN <<>>
        ELSE LET a == CHOOSE i \in at : \A j \in at : i <= j
                 b == CHOOSE i \in a..Len(s) :
                         /\ \A j \in a..i : IsDigit(s[j])
                         /\ i = Len(s) \/ ~IsDigit(s[i + 1])
             IN  SubSeq(s, a, b)

\* str(int(digits)): leading zeros go, one digit stays
RECURSIVE IntText(_)
IntText(digits) ==
    IF Len(digits) > 1 /\ Head(digits) = "0" THEN IntText(Tail(digits)) ELSE digits

\* lines 44-68
clean_collector_number(raw) ==
    IF raw = <<>> THEN Unknown
    ELSE LET digits == FirstDigits(Strip(raw))
         IN  IF digits = <<>> THEN Unknown ELSE IntText(digits)

IsAlnumUpper(c) == c \in Range(UpperLetters) \/ IsDigit(c)

\* re.split(r'[^A-Z0-9]+', s)[0]: what precedes the first other character
FirstToken(s) ==
    LET at == {i \in 1..Len(s) : ~IsAlnumUpper(s[i])}
    IN  IF at = {} THEN s
        ELSE SubSeq(s, 1, (CHOOSE i \in at : \A j \in at : i <= j) - 1)

\* lines 70-95
clean_set_code(raw) ==
    IF raw = <<>> THEN Unknown
    ELSE LET s == Upper(Strip(raw))
             token == Strip(FirstToken(s))
         IN  IF s \in { <<"U","N","K","N","O","W","N">>, <<"N","/","A">>,
                        <<"N","O","N","E">>, <<"N","U","L","L">>, <<>> }
             THEN Unknown
             ELSE IF Len(token) < 3 THEN Unknown
             ELSE IF Len(token) > 5 THEN SubSeq(token, 1, 5)
             ELSE token

\* line 234 (and 262): is the set code one to ask Scryfall about
SetUsable(set_code_clean) ==
    set_code_clean # <<>> /\ set_code_clean # <<"u","n","k","n","o","w","n">>

\* what recognize_card may return: card name, collector number, set code
OcrNames == { <<"A","j","a","n","i">>, Unknown }
OcrNumbers == { <<"0","1","2","/","2","8","7">>, Unknown, <<"A","7">> }
OcrSets == { <<"m","2","1">>, Unknown, <<" ","b","l","c","-","e","n">>, <<"x","y">> }

\* one line of stdout
Line(kind, body) == [kind |-> kind, body |-> body]

\* the script ends: sys.exit, return from main, or an uncaught exception
RcEnds(status) ==
    /\ rc_pc' = "done"
    /\ rc_exit' = status

\* lines 403-411 and 416-418: config, capture, copy of the scanned image
RcCapture ==
    /\ rc_pc = "start"
    /\ \E raised \in BOOLEAN :
          IF raised
          THEN /\ rc_stdout' = Append(rc_stdout, Line("error", "Image capture/process error"))
               /\ RcEnds(0)
          ELSE /\ rc_pc' = "recognize"
               /\ UNCHANGED <<rc_stdout, rc_exit>>
    /\ UNCHANGED <<rc_ocr, rc_url, rc_info, coreVars, feedVars, waitVars>>

\* lines 414-418: recognize_card returns three texts, or raises
RcRecognize ==
    /\ rc_pc = "recognize"
    /\ \/ /\ rc_stdout' = Append(rc_stdout, Line("error", "Image capture/process error"))
          /\ RcEnds(0)
          /\ UNCHANGED rc_ocr
       \/ /\ \E n \in OcrNames, c \in OcrNumbers, sc \in OcrSets :
                rc_ocr' = [card_name |-> n, collector_number |-> c, set_code |-> sc]
          /\ rc_pc' = "exact"
          /\ UNCHANGED <<rc_stdout, rc_exit>>
    /\ UNCHANGED <<rc_url, rc_info, coreVars, feedVars, waitVars>>

\* requests.get: a status, or an exception (no network, timeout, DNS)
Responses == {"200", "404", "raises"}

\* lines 420 and 230-259: fetch_card_info is called outside the try block;
\* the lookup by set and collector number
RcExact ==
    /\ rc_pc = "exact"
    /\ LET set_code_clean == clean_set_code(rc_ocr.set_code)
           collector_number_clean == clean_collector_number(rc_ocr.collector_number)
       IN  IF SetUsable(set_code_clean) /\ collector_number_clean # Unknown
           THEN \E r \in Responses, data \in LoopCards :
                   CASE r = "200" ->
                          /\ rc_info' = data
                          /\ rc_pc' = "emit"
                          /\ UNCHANGED <<rc_stdout, rc_exit>>
                     [] r = "404" ->
                          /\ rc_stdout' = Append(rc_stdout, Line("log", "[SCRYFALL EXACT FAILED]"))
                          /\ rc_pc' = "fuzzy"
                          /\ UNCHANGED <<rc_info, rc_exit>>
                     [] OTHER ->
                          /\ RcEnds(1)
                          /\ UNCHANGED <<rc_info, rc_stdout>>
           ELSE /\ rc_pc' = "fuzzy"
                /\ UNCHANGED <<rc_info, rc_stdout, rc_exit>>
    /\ UNCHANGED <<rc_ocr, rc_url, coreVars, feedVars, waitVars>>

\* lines 261-283: the lookup by name, within the set if there is one
RcFuzzy ==
    /\ rc_pc = "fuzzy"
    /\ rc_url' = IF SetUsable(clean_set_code(rc_ocr.set_code)) THEN "set" ELSE "plain"
    /\ \E r \in Responses, data \in LoopCards :
          CASE r = "200" ->
                 /\ rc_info' = data
                 /\ rc_pc' = "emit"
                 /\ UNCHANGED rc_exit
            [] r = "404" ->
                 /\ rc_pc' = "fallback"
                 /\ UNCHANGED <<rc_info, rc_exit>>
            [] OTHER ->
                 /\ RcEnds(1)
                 /\ UNCHANGED rc_info
    /\ UNCHANGED <<rc_ocr, rc_stdout, coreVars, feedVars, waitVars>>

\* lines 285-302: the lookup by name alone, if that was not the one before
RcFallback ==
    /\ rc_pc = "fallback"
    /\ IF rc_url = "set"
       THEN \E r \in Responses, data \in LoopCards :
               CASE r = "200" ->
                      /\ rc_info' = data
                      /\ rc_pc' = "emit"
                      /\ UNCHANGED rc_exit
                 [] r = "404" ->
                      /\ rc_pc' = "emit"
                      /\ UNCHANGED <<rc_info, rc_exit>>
                 [] OTHER ->
                      /\ RcEnds(1)
                      /\ UNCHANGED rc_info
       ELSE /\ rc_pc' = "emit"
            /\ UNCHANGED <<rc_info, rc_exit>>
    /\ UNCHANGED <<rc_ocr, rc_url, rc_stdout, coreVars, feedVars, waitVars>>

\* lines 421-427: the record or the error marker is printed, then the
\* processed image is removed (os.remove may raise)
RcEmit ==
    /\ rc_pc = "emit"
    /\ rc_stdout' = Append(rc_stdout,
                           IF rc_info # NoCard THEN Line("record", rc_info)
                           ELSE Line("error", "..."))
    /\ \E raised \in BOOLEAN : RcEnds(IF raised THEN 1 ELSE 0)
    /\ UNCHANGED <<rc_ocr, rc_url, rc_info, coreVars, feedVars, waitVars>>

ReadCardMain ==
    \/ RcCapture \/ RcRecognize \/ RcExact \/ RcFuzzy \/ RcFallback \/ RcEmit

\* a script process about to run main()
ReadInit ==
    /\ rc_pc = "start"
    /\ rc_ocr = [card_name |-> Unknown, collector_number |-> Unknown, set_code |-> Unknown]
    /\ rc_url = "none"
    /\ rc_info = NoCard
    /\ rc_stdout = <<>>
    /\ rc_exit = -1

ScriptsInit == ReadInit /\ FeedInit /\ WaitInit

(***************************************************************************)
(* Specifications.                                                         *)
(***************************************************************************)
\* the process after module load: nothing runs, no table was submitted
Init ==
    /\ sorting_active = FALSE
    /\ sorting_thread = None
    /\ box_criteria = EmptyDict
    /\ move_count = 0
    /\ monthly_move_count = 0
    /\ failed_read_count = 0
    /\ counter_files = [moves |-> 0, monthly |-> 0, failed |-> 0]
    /\ card_identified_url = <<>>
    /\ wpc = [t \in Threads |-> "none"]
    /\ card = [t \in Threads |-> NoCard]
    /\ selected_box = [t \in Threads |-> None]
    /\ acts = [t \in Threads |-> <<>>]
    /\ hpc = [h \in Handlers |-> "idle"]
    /\ joining = [h \in Handlers |-> None]
    /\ rises = 0
    /\ requests = 0
    /\ stopped = {}
    /\ PanelInit
    /\ ScriptsInit
    /\ hopper = {LegendaryCard}

Next ==
    \/ \E t \in Threads : Worker(t)
    \/ \E h \in Handlers : Handler(h)

Spec == Init /\ [][Next]_vars

\* routing on its own: one worker holds an identified card and is about to
\* route it against the table the panel submitted last
InitRoute ==
    /\ sorting_active = TRUE
    /\ sorting_thread = 1
    /\ box_criteria \in Tables \cup {EmptyDict}
    /\ move_count = 0
    /\ monthly_move_count = 0
    /\ failed_read_count = 0
    /\ counter_files = [moves |-> 0, monthly |-> 0, failed |-> 0]
    /\ \E c \in Cards :
          /\ card = [t \in Threads |-> IF t = 1 THEN c ELSE NoCard]
          /\ card_identified_url = c["card_identified_url"]
    /\ wpc = [t \in Threads |-> IF t = 1 THEN "route" ELSE "none"]
    /\ selected_box = [t \in Threads |-> None]
    /\ acts = [t \in Threads |->
                 IF t = 1 THEN <<Act("feed", 0, TRUE), Act("read", 0, TRUE)>> ELSE <<>>]
    /\ hpc = [h \in Handlers |-> "idle"]
    /\ joining = [h \in Handlers |-> None]
    /\ rises = 1
    /\ requests = 0
    /\ stopped = {}
    /\ PanelInit
    /\ ScriptsInit
    /\ hopper = {card[1]}

NextRoute == \E t \in Threads : WRoute(t)

SpecRoute == InitRoute /\ [][NextRoute]_vars

\* the panel serving one request at a time, taken up while a run is under
\* way: the worker of that run is about to test the flag
InitRunning ==
    /\ sorting_active = TRUE
    /\ sorting_thread = 1
    /\ box_criteria = EmptyDict
    /\ move_count = 0
    /\ monthly_move_count = 0
    /\ failed_read_count = 0
    /\ counter_files = [moves |-> 0, monthly |-> 0, failed |-> 0]
    /\ card_identified_url = <<>>
    /\ wpc = [t \in Threads |-> IF t = 1 THEN "test" ELSE "none"]
    /\ card = [t \in Threads |-> NoCard]
    /\ selected_box = [t \in Threads |-> None]
    /\ acts = [t \in Threads |-> <<>>]
    /\ hpc = [h \in Handlers |-> "idle"]
    /\ joining = [h \in Handlers |-> None]
    /\ rises = 1
    /\ requests = 0
    /\ stopped = {}
    /\ PanelInit
    /\ ScriptsInit
    /\ hopper = LoopCards

\* only one handler ever acts
NextSerial ==
    \/ \E t \in Threads : Worker(t)
    \/ Serial(1)

SpecSerial == InitRunning /\ [][NextSerial]_vars

\* the counters against the hooks: a run is under way, its worker about to
\* test the flag, and the panel serves one hook request at a time
WorkerSteps(t) ==
    \/ WTest(t) \/ WFeed1(t) \/ WFeed2(t) \/ WRead(t)
    \/ WRoute(t) \/ WDispense(t) \/ WCountSteps(t)

InitHooks ==
    /\ sorting_active = TRUE
    /\ sorting_thread = 1
    /\ box_criteria = FromForm(<<"type", 3>> :> TCreature)
    /\ move_count = 0
    /\ monthly_move_count = 0
    /\ failed_read_count = 0
    /\ counter_files = [moves |-> 0, monthly |-> 0, failed |-> 0]
    /\ card_identified_url = <<>>
    /\ wpc = [t \in Threads |-> IF t = 1 THEN "test" ELSE "none"]
    /\ card = [t \in Threads |-> NoCard]
    /\ selected_box = [t \in Threads |-> None]
    /\ acts = [t \in Threads |-> <<>>]
    /\ hpc = [h \in Handlers |-> "idle"]
    /\ joining = [h \in Handlers |-> None]
    /\ rises = 1
    /\ requests = 0
    /\ stopped = {}
    /\ PanelInit
    /\ ScriptsInit
    /\ hopper = {LegendaryCard}

NextHooks ==
    \/ \E t \in Threads : WorkerSteps(t)
    \/ Hooks(1)

SpecHooks == InitHooks /\ [][NextHooks]_vars

\* routing against submissions: a worker holds an identified card and is
\* about to route it, while the panel submits tables
InitLock ==
    /\ sorting_active = TRUE
    /\ sorting_thread = 1
    /\ box_criteria \in SubmitTables \cup {EmptyDict}
    /\ move_count = 0
    /\ monthly_move_count = 0
    /\ failed_read_count = 0
    /\ counter_files = [moves |-> 0, monthly |-> 0, failed |-> 0]
    /\ \E c \in LoopCards :
          /\ card = [t \in Threads |-> IF t = 1 THEN c ELSE NoCard]
          /\ card_identified_url = c["card_identified_url"]
    /\ wpc = [t \in Threads |-> IF t = 1 THEN "route" ELSE "none"]
    /\ selected_box = [t \in Threads |-> None]
    /\ acts = [t \in Threads |->
                 IF t = 1 THEN <<Act("feed", 0, TRUE), Act("read", 0, TRUE)>> ELSE <<>>]
    /\ hpc = [h \in Handlers |-> "idle"]
    /\ joining = [h \in Handlers |-> None]
    /\ rises = 1
    /\ requests = 0
    /\ stopped = {}
    /\ PanelInit
    /\ ScriptsInit
    /\ hopper = {card[1]}

NextLock ==
    \/ \E t \in Threads : WLock(t) \/ WScan(t)
    \/ \E h \in Handlers : Submit(h)

SpecLock == InitLock /\ [][NextLock]_vars

\* one call of wait_for_level_stable
SpecWait == Init /\ [][NextWait]_vars

\* one run of Feed-Card.py, beside an orchestrator that stands still
SpecFeed == Init /\ [][NextFeed]_vars

\* one run of Read-Card.py, beside an orchestrator that stands still
SpecRead == Init /\ [][ReadCardMain]_vars

\* the steps by which a request that was taken up goes on
Progress(h) ==
    \/ HStartSet(h) \/ HStartNew(h) \/ HStartStart(h)
    \/ HStopCheck(h) \/ HStopJoin(h) \/ HStopWait(h) \/ HStopClear(h)
    \/ HReturn(h)

\* the same, with every thread scheduled again and again: a worker that can
\* step does step (each script terminates), and so does a request in hand;
\* new requests come or do not come
SpecLive ==
    /\ InitRunning
    /\ [][NextSerial]_vars
    /\ \A t \in Threads : WF_vars(Worker(t))
    /\ WF_vars(Progress(1))

(***************************************************************************)
(* Properties of routing, checked under SpecRoute.                         *)
(***************************************************************************)
\* worker t has routed an identified card and is about to dispense it
Routed(t) == wpc[t] = "dispense" /\ "error" \notin DOMAIN card[t]

CritAt(i) == CriteriaOf(box_criteria, i)

Field(d, key) == Get(d, key, <<>>)

\* the bins whose criteria the card of worker t matches
Matching(t) == {i \in 1..NumBoxes : matches_criteria(card[t], CritAt(i))}

Least(S) == CHOOSE x \in S : \A y \in S : x <= y

IsLetter(c) == c \in Range(UpperLetters) \cup Range(LowerLetters)

IsSentinel(type) == Lower(type) = NoneSentinel

\* the entry sets no filter besides its name filter
NameOnly(crit) ==
    /\ Field(crit, "type") = <<>> \/ IsSentinel(Field(crit, "type"))
    /\ Field(crit, "cmc") = <<>>
    /\ Field(crit, "set_symbol") = <<>>
    /\ Field(crit, "colors") = <<>>

\* the two sides of a filter "x-y", blanks dropped
Sides(f) == [i \in DOMAIN Split(f) |-> Strip(Split(f)[i])]

OneCharSides(f) == Len(Sides(f)) = 2 /\ Len(Sides(f)[1]) = 1 /\ Len(Sides(f)[2]) = 1

\* <letter>-<letter> with the first letter not after the second
WellFormedRange(f) ==
    /\ Len(f) = 3 /\ f[2] = "-" /\ IsLetter(f[1]) /\ IsLetter(f[3])
    /\ Ord(UpperChar(f[1])) <= Ord(UpperChar(f[3]))

\* <letter>-<letter> with the first letter after the second
OutOfOrder(f) ==
    /\ OneCharSides(f)
    /\ Ord(UpperChar(Sides(f)[1][1])) > Ord(UpperChar(Sides(f)[2][1]))

\* a "-" is there, but not with exactly one character on each side
BadSides(f) == "-" \in Range(f) /\ ~OneCharSides(f)

FirstLetterWithin(c, lo, hi) ==
    LET n == Strip(Field(c, "name"))
    IN  /\ n # <<>>
        /\ Ord(UpperChar(lo)) <= Ord(UpperChar(n[1]))
        /\ Ord(UpperChar(n[1])) <= Ord(UpperChar(hi))

IsSubstringNoCase(f, text) == Contains(Lower(f), Lower(text))

ColorRule(c, crit) ==
    LET want == ToSet(Field(crit, "colors"))
        have == ToSet(Field(c, "colors"))
    IN  IF want = {"C"} THEN have = {} ELSE have = want

NameRule(c, crit) ==
    LET f == Strip(Field(crit, "name"))
    IN  IF "-" \in Range(f) /\ OneCharSides(f)
        THEN FirstLetterWithin(c, Sides(f)[1][1], Sides(f)[2][1])
        ELSE IsSubstringNoCase(f, Strip(Field(c, "name")))

TypeRule(c, crit) ==
    \/ IsSentinel(Field(crit, "type"))
    \/ IsSubstringNoCase(Field(crit, "type"), Field(c, "type"))

CmcRule(c, crit) ==
    LET want == ParseFloat(Field(crit, "cmc"))
        have == FloatOf(Get(c, "cmc", Num(0, 0)))
    IN  want.ok /\ have.ok /\ FloatEq(want, have)

SetRule(c, crit) == IsSubstringNoCase(Field(crit, "set_symbol"), Field(c, "set_symbol"))

\* every field of the entry is empty
AllEmpty(crit) ==
    \A k \in {"name", "type", "cmc", "set_symbol", "colors"} : Field(crit, k) = <<>>

\* at least one field of the entry is a filter
NonEmptyEntry(crit) ==
    \/ Field(crit, "name") # <<>>
    \/ (Field(crit, "type") # <<>> /\ ~IsSentinel(Field(crit, "type")))
    \/ Field(crit, "cmc") # <<>>
    \/ Field(crit, "set_symbol") # <<>>
    \/ Field(crit, "colors") # <<>>

\* C1: routing returns the lowest bin in 1..10 whose criteria the card
\* matches, also when a later bin matches too, and bin 10 when none matches.
C1_FirstMatchWins ==
    \A t \in Threads :
        Routed(t) =>
            selected_box[t] = IF Matching(t) = {} THEN 10 ELSE Least(Matching(t))

\* a card that matches two bins was routed to the lower one
C1_Witness ==
    \E t \in Threads :
        /\ Routed(t)
        /\ Cardinality(Matching(t)) >= 2
        /\ selected_box[t] = Least(Matching(t))
        /\ selected_box[t] < 10

\* C2 as stated: an entry with every field empty matches no card, and its
\* bin is never the bin routing selects.
C2_EmptyNeverSelected ==
    \A t \in Threads :
        Routed(t) =>
            \A i \in 1..NumBoxes :
                (i \in DOMAIN box_criteria /\ AllEmpty(CritAt(i))) =>
                    /\ ~matches_criteria(card[t], CritAt(i))
                    /\ selected_box[t] # i

\* C2 amended: an entry with every field empty matches no card, and its bin
\* is selected only as the default: it is bin 10 and no bin matched.
C2_EmptyNeverMatches ==
    \A t \in Threads :
        Routed(t) =>
            \A i \in 1..NumBoxes :
                AllEmpty(CritAt(i)) =>
                    /\ ~matches_criteria(card[t], CritAt(i))
                    /\ selected_box[t] = i => (i = 10 /\ Matching(t) = {})

\* routing passed over empty bins and selected a later bin that matched
C2_Witness ==
    \E t \in Threads :
        /\ Routed(t)
        /\ selected_box[t] \in Matching(t)
        /\ \E i \in 1..NumBoxes : i < selected_box[t] /\ AllEmpty(CritAt(i))
        /\ \E i \in 1..NumBoxes : i > selected_box[t] /\ AllEmpty(CritAt(i))

\* C3: an entry with a colour filter matches only if the colour rule holds:
\* for the filter {C} the card has no colours, for any other filter the
\* card's colour set equals the filter's.
C3_ColorRule ==
    \A t \in Threads :
        Routed(t) =>
            \A i \in 1..NumBoxes :
                (Field(CritAt(i), "colors") # <<>> /\ i \in Matching(t))
                    => ColorRule(card[t], CritAt(i))

\* a card was routed to a bin on a colour filter of two colours
C3_Witness ==
    \E t \in Threads :
        /\ Routed(t)
        /\ selected_box[t] \in Matching(t)
        /\ Cardinality(ToSet(Field(CritAt(selected_box[t]), "colors"))) = 2

\* C4: with a name filter <letter>-<letter>, first letter not after the
\* second, an entry matches only if the card's name is not empty and its
\* first letter, case ignored, is within the range; an entry with no other
\* filter matches whenever it is.
C4_NameRange ==
    \A t \in Threads :
        Routed(t) =>
            \A i \in 1..NumBoxes :
                LET f == Field(CritAt(i), "name")
                IN  (f # <<>> /\ WellFormedRange(f)) =>
                        /\ i \in Matching(t) => FirstLetterWithin(card[t], f[1], f[3])
                        /\ (NameOnly(CritAt(i)) /\ FirstLetterWithin(card[t], f[1], f[3]))
                               => i \in Matching(t)

\* a card whose name starts with a lower-case letter was routed on a range
C4_Witness ==
    \E t \in Threads :
        /\ Routed(t)
        /\ selected_box[t] \in Matching(t)
        /\ Field(CritAt(selected_box[t]), "name") # <<>>
        /\ WellFormedRange(Field(CritAt(selected_box[t]), "name"))
        /\ Field(card[t], "name")[1] \in Range(LowerLetters)

\* C5 as stated: a name filter with a "-" whose letters are out of order, or
\* with a side that is not one character, is matched as a substring.
C5_MalformedIsSubstring ==
    \A t \in Threads :
        Routed(t) =>
            \A i \in 1..NumBoxes :
                LET f == Field(CritAt(i), "name")
                IN  (f # <<>> /\ (OutOfOrder(f) \/ BadSides(f)) /\ NameOnly(CritAt(i))) =>
                        (i \in Matching(t) <=> IsSubstringNoCase(f, Field(card[t], "name")))

\* C5 amended: a name filter with a "-" and a side that is not one character
\* is matched as a substring; one with two letters out of order matches no
\* card.
C5_BadSidesIsSubstring ==
    \A t \in Threads :
        Routed(t) =>
            \A i \in 1..NumBoxes :
                LET f == Field(CritAt(i), "name")
                IN  /\ (f # <<>> /\ BadSides(f) /\ NameOnly(CritAt(i))) =>
                        (i \in Matching(t) <=> IsSubstringNoCase(f, Field(card[t], "name")))
                    /\ (f # <<>> /\ OutOfOrder(f)) => i \notin Matching(t)

\* a card was routed on a filter with a long side, found in its name
C5_Witness ==
    \E t \in Threads :
        /\ Routed(t)
        /\ selected_box[t] \in Matching(t)
        /\ Field(CritAt(selected_box[t]), "name") # <<>>
        /\ BadSides(Field(CritAt(selected_box[t]), "name"))

\* C6: an entry with at least one filter matches exactly when the rule of
\* every field that is set holds; "-none-" as type constrains nothing.
C6_AllRulesAtOnce ==
    \A t \in Threads :
        Routed(t) =>
            \A i \in 1..NumBoxes :
                LET crit == CritAt(i)
                IN  NonEmptyEntry(crit) =>
                        (i \in Matching(t) <=>
                            /\ Field(crit, "name") # <<>> => NameRule(card[t], crit)
                            /\ Field(crit, "type") # <<>> => TypeRule(card[t], crit)
                            /\ Field(crit, "cmc") # <<>> => CmcRule(card[t], crit)
                            /\ Field(crit, "set_symbol") # <<>> => SetRule(card[t], crit)
                            /\ Field(crit, "colors") # <<>> => ColorRule(card[t], crit))

\* a card was routed on an entry with all five fields set
C6_Witness ==
    \E t \in Threads :
        /\ Routed(t)
        /\ selected_box[t] \in Matching(t)
        /\ \A k \in {"name", "type", "cmc", "set_symbol", "colors"} :
              Field(CritAt(selected_box[t]), k) # <<>>

(***************************************************************************)
(* Properties of start and stop, checked under Spec and SpecSerial.        *)
(***************************************************************************)
\* C7: a start request that finds the flag set does nothing: it takes the
\* branch that only renders the page, and the flag, the handle, the worker
\* threads, the counters and the criteria stay as they are.
C7_StartWhileRunningIsNoop ==
    [][\A h \in Handlers :
          /\ (sorting_active /\ hpc[h] = "idle" /\ hpc'[h] \in {"start_set", "start_noop"})
                => /\ hpc'[h] = "start_noop"
                   /\ UNCHANGED <<sorting_active, sorting_thread, wpc,
                                  counterVars, box_criteria>>
          /\ (hpc[h] = "start_noop" /\ hpc'[h] # "start_noop")
                => /\ hpc'[h] = "idle"
                   /\ UNCHANGED <<sorting_active, sorting_thread, wpc,
                                  counterVars, box_criteria>>]_vars

\* a second start found the flag set: still one worker, the one started first
C7_Witness ==
    \E h \in Handlers :
        /\ hpc[h] = "start_noop"
        /\ sorting_active
        /\ Cardinality(Started) = 1
        /\ Cardinality(Alive) = 1
        /\ sorting_thread \in Alive

C9_NoDoubleSpawnNoDoubleJoin ==
    /\ Cardinality(Started) <= rises
    /\ \A g, h \in Handlers :
          (g # h /\ joining[g] # None) => joining[g] # joining[h]

\* C10: at any time at most one worker executes sorting_loop, so at most one
\* feed and at most one dispense are in progress.
C10_SingleWorker ==
    /\ Cardinality(Alive) <= 1
    /\ Cardinality(Feeding) <= 1
    /\ Cardinality(Dispensing) <= 1


(***************************************************************************)
(* The cycle of the worker, read off what it ran.                          *)
(***************************************************************************)
OpsOf(log) == [i \in DOMAIN log |-> log[i].op]

Times(log, op) == Cardinality({i \in DOMAIN log : log[i].op = op})

Did(log, op) == \E i \in DOMAIN log : log[i].op = op /\ log[i].ok

FeedFailed == Act("feed", 0, FALSE)
FeedDone == Act("feed", 0, TRUE)

\* the step of worker t is the run of a script, or a pass, with this outcome
Runs(t, a) == acts'[t] = Append(acts[t], a)

\* C11: when the second Feed-Card.py run of a cycle fails as the first did,
\* the worker itself clears the running flag and ends, no request being
\* involved, and all it ran in that cycle are the two feeds: no
\* identification, no gate, no release, no capture.
C11_TwoFeedFailuresEndRun ==
    [][\A t \in Threads :
          (wpc[t] = "feed2" /\ Runs(t, FeedFailed)) =>
             /\ ~sorting_active'
             /\ wpc'[t] = "dead"
             /\ acts'[t] = <<FeedFailed, FeedFailed>>
             /\ UNCHANGED <<hpc, sorting_thread, counterVars>>]_vars

C11_Witness ==
    \E t \in Threads :
       /\ wpc[t] = "dead"
       /\ acts[t] = <<FeedFailed, FeedFailed>>
       /\ ~sorting_active
       /\ \A h \in Handlers : hpc[h] = "idle"
       /\ requests = 0

\* the feeds of a cycle come first, at most two of them, and a second one
\* only behind a failed first one; anything else follows a feed that worked
FeedShape(log) ==
    /\ Times(log, "feed") <= 2
    /\ \A i \in DOMAIN log : log[i].op = "feed" => i <= 2
    /\ (Len(log) >= 2 /\ log[2].op = "feed") => log[1] = FeedFailed
    /\ \A i \in DOMAIN log : log[i].op # "feed" => (i > 1 /\ log[i - 1].op = "feed" => log[i - 1].ok)
    /\ (Len(log) >= 1) => log[1].op = "feed"

\* C12: in each cycle Feed-Card.py runs at most twice, the second time only
\* after the first run failed; a retry that succeeds leaves the worker where
\* a first run that succeeds leaves it, about to identify the card, with the
\* flag, the counters and the table untouched.
C12_FeedRetry ==
    [][\A t \in Threads :
          /\ FeedShape(acts'[t])
          /\ (wpc[t] \in {"feed1", "feed2"} /\ Runs(t, FeedDone)) =>
                /\ wpc'[t] = "read"
                /\ UNCHANGED <<sorting_active, sorting_thread, box_criteria,
                               counterVars, card_identified_url, card, selected_box>>
          /\ (wpc[t] = "feed1" /\ Runs(t, FeedFailed)) =>
                /\ wpc'[t] = "feed2"
                /\ UNCHANGED sorting_active]_vars

C12_Witness ==
    \E t \in Threads :
       /\ wpc[t] = "count"
       /\ sorting_active
       /\ Len(acts[t]) >= 3
       /\ SubSeq(OpsOf(acts[t]), 1, 3) = <<"feed", "feed", "read">>
       /\ acts[t][2] = FeedDone
       /\ Did(acts[t], "route")
       /\ Did(acts[t], "capture")

\* worker t ends its reading step in this way
ReadsAs(t, c) == wpc[t] = "read" /\ wpc'[t] # "read" /\ card'[t] = c /\ Runs(t, Act("read", 0, TRUE))

\* worker t closes its cycle
Counts(t) == wpc[t] = "count" /\ wpc'[t] = "test"

\* C13: a cycle whose identification output cannot be parsed raises the
\* failed-identification counter by exactly 1, sends the card to bin 10, and
\* raises the lifetime and the monthly counter by exactly 1 each.
C13_ParseErrorCountsOnce ==
    [][\A t \in Threads :
          /\ ReadsAs(t, DecodeErrorCard) =>
                /\ failed_read_count' = failed_read_count + 1
                /\ selected_box'[t] = DefaultBox
                /\ wpc'[t] = "dispense"
          /\ Counts(t) =>
                /\ move_count' = move_count + 1
                /\ monthly_move_count' = monthly_move_count + 1]_vars

\* what a log shows once the card went down the default path
DefaultPath(log) ==
    /\ Times(log, "route") = 0
    /\ Times(log, "open") = 0
    /\ Times(log, "close") = 0

CreatureTable ==
    [i \in 1..NumBoxes |-> IF i = 3 THEN Crit(<<>>, TCreature, <<>>, <<>>, <<>>) ELSE EmptyCrit]

IsGate(a) == a.op \in {"open", "close"}

\* every gate the log shows is the gate of the bin its routing pass computed
GatesAsRouted(log) ==
    \A i \in DOMAIN log :
       IsGate(log[i]) =>
          /\ log[i].bin # DefaultBox
          /\ \E j \in 1..(i - 1) : log[j] = Act("route", log[i].bin, TRUE)

\* C15: in a cycle whose identification succeeded, the routing pass computes
\* the bin from the card and the table as it is at that moment, and the gate
\* the dispense steps actuate is the gate of that bin, also when the table is
\* replaced in between; with bin 3 = {type: Creature} a Legendary Creature
\* goes through gate 3 and an Instant goes to bin 10.
C15_GateIsRoutedBin ==
    [][\A t \in Threads :
          /\ (wpc[t] = "route" /\ wpc'[t] # "route") =>
                /\ selected_box'[t] = SelectBox(card[t], box_criteria)
                /\ Runs(t, Act("route", selected_box'[t], TRUE))
                /\ (box_criteria = CreatureTable /\ card[t] = LegendaryCard) =>
                      selected_box'[t] = 3
                /\ (box_criteria = CreatureTable /\ card[t] = InstantCard) =>
                      selected_box'[t] = DefaultBox
          /\ GatesAsRouted(acts'[t])
          /\ (wpc[t] = "dispense" /\ wpc'[t] # "dispense" /\ Did(acts[t], "route")) =>
                IF selected_box[t] = DefaultBox
                THEN \E ok \in BOOLEAN : Runs(t, Act("release", 0, ok))
                ELSE \E ok \in BOOLEAN : Runs(t, Act("open", selected_box[t], ok))]_vars

C15_Witness ==
    \E t \in Threads :
       /\ wpc[t] = "release"
       /\ card[t] = LegendaryCard
       /\ acts[t][Len(acts[t])] = Act("open", 3, TRUE)
       /\ box_criteria # CreatureTable
       /\ SelectBox(card[t], box_criteria) # 3

\* the step of worker t is a script, or the refresh, that fails after the feed
FailsInCycle(t) ==
    /\ Len(acts'[t]) = Len(acts[t]) + 1
    /\ Runs(t, acts'[t][Len(acts'[t])])
    /\ ~acts'[t][Len(acts'[t])].ok
    /\ acts'[t][Len(acts'[t])].op # "feed"

IsDispense(a) == a.op \in {"open", "release", "close", "capture"}

\* the dispense scripts of the cycle, in the order the worker ran them
DispenseOps(log) == OpsOf(SelectSeq(log, IsDispense))

IsPrefix(p, q) == Len(p) <= Len(q) /\ SubSeq(q, 1, Len(p)) = p

\* the bin the cycle dispenses to: the routed one, or 10 without a routing pass
Target(log) ==
    IF \E i \in DOMAIN log : log[i].op = "route"
    THEN log[CHOOSE i \in DOMAIN log : log[i].op = "route"].bin
    ELSE DefaultBox

\* C17: for a selected bin b other than 10 the dispense steps are, in this
\* order, open gate b, card release, card capture, close gate b (the run of
\* them ending where a script fails), and no gate but that of b is actuated.
C17_GateClosesAfterCapture ==
    \A t \in Threads :
       Target(acts[t]) # DefaultBox =>
          /\ IsPrefix(DispenseOps(acts[t]), <<"open", "release", "capture", "close">>)
          /\ \A i \in DOMAIN acts[t] : IsGate(acts[t][i]) => acts[t][i].bin = Target(acts[t])

\* C18: for the default bin 10 the dispense steps are the card release and
\* then the card capture, and no gate is opened or closed for any bin.
C18_DefaultBinReleaseCapture ==
    \A t \in Threads :
       Target(acts[t]) = DefaultBox =>
          /\ IsPrefix(DispenseOps(acts[t]), <<"release", "capture">>)
          /\ \A i \in DOMAIN acts[t] : ~IsGate(acts[t][i])
          /\ \A i \in DOMAIN acts[t] :
                acts[t][i].op = "capture" => (i > 1 /\ acts[t][i - 1] = Act("release", 0, TRUE))

C18_Witness ==
    \E t \in Threads :
       /\ wpc[t] = "count"
       /\ Did(acts[t], "route")
       /\ Target(acts[t]) = DefaultBox
       /\ DispenseOps(acts[t]) = <<"release", "capture">>
       /\ Did(acts[t], "capture")

\* where a step of the worker leads from a position inside a cycle
Onward(pc) ==
    CASE pc = "feed1" -> {"feed2", "read"}
      [] pc = "feed2" -> {"read", "dead"}
      [] pc = "read" -> {"route", "dispense", "count"}
      [] pc = "route" -> {"dispense"}
      [] pc = "dispense" -> {"release", "capture", "count"}
      [] pc = "release" -> {"close", "capture", "count"}
      [] pc = "close" -> {"capture", "count"}
      [] pc = "capture" -> {"images", "count"}
      [] pc = "images" -> {"count"}
      [] pc = "count" -> {"test"}
      [] OTHER -> {}

Midcycle == {"feed1", "feed2", "read", "route", "dispense", "release", "close",
             "capture", "images", "count"}

C20_StoppedWorkerExits ==
    /\ [][\A t \in stopped : ~(wpc[t] = "test" /\ wpc'[t] = "feed1")]_vars
    /\ \A t \in Threads : (t \in stopped) ~> (wpc[t] = "dead")

(***************************************************************************)
(* Properties of the criteria table, checked under SpecLock and Spec.      *)
(***************************************************************************)
\* a worker ends its routing loop in this step
EndsScan(t) == wpc[t] = "scan" /\ wpc'[t] = "dispense"

\* a request handler takes a step of the submit branch
SubmitStep == \E h \in Handlers : hpc'[h] # hpc[h]

\* C21: the routing loop of a cycle reads one table only, the one that was
\* in place when it took the lock, and its decision is the routing of the
\* card against that table, never against bins of two tables; and no step of
\* a submission moves the worker, its loop index, its card or its decision.
C21_RoutingReadsOneTable ==
    [][ /\ \A t \in Threads :
             EndsScan(t) =>
                /\ Cardinality(seen'[t]) = 1
                /\ \A table \in seen'[t] :
                      selected_box'[t] = SelectBox(card[t], table)
        /\ SubmitStep => UNCHANGED <<wpc, scan, card, selected_box, acts>>
      ]_vars

\* a submission with another table waits for the lock while the worker is
\* in the middle of its routing loop
C21_Witness ==
    \E t \in Threads, h \in Handlers :
        /\ wpc[t] = "scan"
        /\ scan[t] > 1
        /\ lock = <<"worker", t>>
        /\ hpc[h] = "submit_lock"
        /\ built[h] # box_criteria
        /\ SelectBox(card[t], built[h]) # SelectBox(card[t], box_criteria)

\* a table of ten slots, keyed 1 to 10, each an entry of five fields
TenSlots(table) ==
    /\ DOMAIN table = 1..NumBoxes
    /\ \A i \in 1..NumBoxes :
          DOMAIN table[i] = {"name", "type", "colors", "cmc", "set_symbol"}

AtBoundary(t) == wpc[t] = "test"

Persisted ==
    /\ counter_files.moves = move_count
    /\ counter_files.monthly = monthly_move_count

\* C23: whenever a worker is at a cycle boundary, about to test the flag,
\* the persisted lifetime and monthly values equal the in-memory ones; and
\* the lifetime counter never decreases.
C23_PersistedAtBoundary ==
    /\ [](\A t \in Threads : AtBoundary(t) => Persisted)
    /\ [][move_count' >= move_count]_vars

\* a step of a request handler
HandlerStep == hpc' # hpc \/ requests' # requests

\* C24 as stated: no step of a request handler changes an in-memory counter
\* or a persisted one.
C24_HandlersOnlyRead ==
    [][HandlerStep => UNCHANGED counterVars]_vars

\* C24: no step of a request handler changes the lifetime counter, its file
\* or the in-memory failed count; what the handlers write is what the two
\* reset hooks write: 0 to the in-memory monthly counter, the in-memory
\* monthly value read after that to the monthly file, and 0 to the failed
\* file.
C24_HandlersOnlyReset ==
    [][HandlerStep =>
         /\ UNCHANGED <<move_count, failed_read_count>>
         /\ counter_files'.moves = counter_files.moves
         /\ monthly_move_count' # monthly_move_count => monthly_move_count' = 0
         /\ counter_files'.failed # counter_files.failed => counter_files'.failed = 0
         /\ counter_files'.monthly # counter_files.monthly =>
                \E h \in Handlers : /\ hpc[h] = "clear_write"
                                     /\ counter_files'.monthly = saving[h]
      ]_vars

\* the monthly counter was reset in the middle of a run that has counted
\* cards, and its file is about to be written
C24_Witness ==
    \E h \in Handlers :
        /\ hpc[h] = "clear_arg"
        /\ sorting_active
        /\ move_count > 0
        /\ monthly_move_count = 0
        /\ counter_files.monthly > 0

\* C25: /run_script runs no actuator script while the running flag is true.
C25_NoManualActuationInRun == ~manual.active

\* a worker is in one of its two saves
Saving(t) == wpc[t] \in {"save_moves", "save_monthly"}

\* C26: a save of a counter never ends the worker nor changes the counter
\* in memory, whether the write succeeds or not, so the worker goes on to
\* the next cycle; and the running flag is true exactly while some worker
\* executes the loop.
C26_SaveFailureAbsorbed ==
    /\ [][\A t \in Threads :
             Saving(t) => /\ wpc'[t] # "dead"
                          /\ UNCHANGED <<move_count, monthly_move_count>>]_vars
    /\ [](sorting_active <=> Alive # {})

(***************************************************************************)
(* Properties of Read-Card.py, checked under SpecRead.                     *)
(***************************************************************************)
\* the results on stdout: card records and error markers
Results == SelectSeq(rc_stdout, LAMBDA l : l.kind \in {"record", "error"})

\* C27: when Read-Card.py has ended, it has printed exactly one result, a
\* card record or an error marker, whatever failed on the way.
C27_OneResultPerRun == rc_pc = "done" => Len(Results) = 1


(***************************************************************************)
(* Feed Sequencer                                                          *)
(***************************************************************************)
\* the state of the feed protocol the main flow is in at a place of the script
Phase(site) ==
    CASE site = "idle" -> "Idle"
      [] site = "wait_entry" -> "Phase1Drive"
      [] site \in {"entry_blocked", "settled"} -> "Phase1Settle"
      [] site = "reverse" -> "Phase2Reverse"
      [] site = "wait_clear" -> "WaitEntryClear"
      [] site \in {"entry_clear", "wait_exit"} -> "DriveToExit"
      [] site = "exit_blocked" -> "Done"
      [] site = "timeout_entry" -> "TimeoutAtEntry"
      [] site = "timeout_clear" -> "TimeoutAtClear"
      [] site = "timeout_exit" -> "TimeoutAtExit"

MainPath ==
    <<"Idle", "Phase1Drive", "Phase1Settle", "Phase2Reverse", "WaitEntryClear",
      "DriveToExit", "Done">>

TimeoutOf(phase) ==
    CASE phase = "Phase1Drive" -> "TimeoutAtEntry"
      [] phase = "WaitEntryClear" -> "TimeoutAtClear"
      [] phase = "DriveToExit" -> "TimeoutAtExit"

Timeouts == {"TimeoutAtEntry", "TimeoutAtClear", "TimeoutAtExit"}

RECURSIVE Squeeze(_)
Squeeze(seq) ==
    IF Len(seq) <= 1 THEN seq
    ELSE IF seq[1] = seq[2] THEN Squeeze(Tail(seq))
    ELSE <<seq[1]>> \o Squeeze(Tail(seq))

\* the places visited while the script ran, and the phases they belong to
Visited == SelectSeq(f_trace, LAMBDA site : site # "done")

Phases == Squeeze([i \in 1..Len(Visited) |-> Phase(Visited[i])])


OnPath(p) ==
    \/ IsPrefix(p, MainPath)
    \/ \E i \in 1..Len(MainPath) :
          /\ MainPath[i] \in {"Phase1Drive", "WaitEntryClear", "DriveToExit"}
          /\ p = Append(SubSeq(MainPath, 1, i), TimeoutOf(MainPath[i]))

\* the three debounced sensor events, in their order
SensorsInOrder ==
    \E i, j, k \in 1..Len(f_trace) :
       /\ i < j /\ j < k
       /\ f_trace[i] = "entry_blocked"
       /\ f_trace[j] = "entry_clear"
       /\ f_trace[k] = "exit_blocked"

\* a wait of the main flow returns True in this step
WaitSucceeds == f_pc \in WaitSites /\ f_pc' = Wait(f_pc).ok

\* C28: every run of the feed script goes Idle, Phase1Drive, Phase1Settle,
\* Phase2Reverse, WaitEntryClear, DriveToExit, Done, leaving this path only
\* from one of the three waits to that wait's timeout; the exit status is 0
\* exactly when Done was reached, which is exactly when the entry sensor was
\* found blocked, then clear, then the exit sensor blocked, each held for the
\* stabilization window; it is non-zero exactly after a timeout
C28_FeedPath ==
    /\ [](/\ OnPath(Phases)
          /\ f_pc = "done" =>
               /\ f_exit = 0 <=> Phases[Len(Phases)] = "Done"
               /\ f_exit = 0 <=> SensorsInOrder
               /\ f_exit # 0 <=> Phases[Len(Phases)] \in Timeouts
          /\ f_pc # "done" => f_exit = -1)
    /\ [][WaitSucceeds =>
            /\ stable_start # -1
            /\ elapsed - stable_start >= StablePolls]_vars

C28_Witness == f_pc = "done" /\ f_exit = 0 /\ Phases = MainPath


\* C29: when the feed script has returned, with either status, no stepping
\* task is still running and the pins of all three motors are low.
C29_HaltedOnReturn ==
    f_pc = "done" =>
       /\ \A k \in Tasks : ~TaskAlive(k)
       /\ \A m \in Motors : pins[m] = 0


\* a motor is halted: none of its stepping tasks runs and its pins are low
Halted(m) ==
    /\ pins[m] = 0
    /\ \A k \in Tasks : TaskMotor[k] = m => ~TaskAlive(k)

Restarted == tk_pc[4] # "none" \/ tk_pc[5] # "none"

\* C30: after the entry trigger nothing happens before motor 1 is halted;
\* during the extra feed motor 1 is halted while the Phase 1 task of motor 2
\* runs on with its stop event clear; motor 2 is halted when the extra feed
\* is over and its stop_motor has returned; and the Phase 2 tasks are
\* started only with the Phase 1 tasks of motors 1 and 2 ended.
C30_EntryTriggerOrder ==
    /\ f_pc = "entry_blocked" =>
         /\ TaskAlive(2) /\ ~motor_stop[2]
         /\ ~Restarted
         /\ f_todo = <<>> => Halted(1)
    /\ f_pc = "settled" =>
         /\ Halted(1)
         /\ ~Restarted
         /\ f_todo = <<>> => Halted(2)
    /\ f_pc = "reverse" => Halted(1) /\ Halted(2) /\ ~Restarted
    /\ Restarted => ~TaskAlive(1) /\ ~TaskAlive(2)


\* the stepping tasks of a motor that run
Driving(m) == {k \in Tasks : TaskMotor[k] = m /\ TaskAlive(k)}

\* the sense in which a motor turned in Phase1Drive
Phase1Sense(m) == Sense(StepsOf(m))

\* C31: while the main flow waits for the entry sensor to clear, motors 1
\* and 2 are each driven, with the stop event clear, and only in the sense
\* opposite to the one of Phase1Drive; after the clear timeout the script
\* returns a failure with all three motors halted; and when the wait for
\* the exit sensor begins, motors 1 and 2 are halted.
C31_ReverseUntilClear ==
    /\ f_pc = "wait_clear" =>
         \A m \in {1, 2} :
            /\ Driving(m) # {}
            /\ ~motor_stop[m]
            /\ \A k \in Driving(m) :
                  /\ Sense(StepsOf(k)) # 0
                  /\ Sense(StepsOf(k)) = 0 - Phase1Sense(m)
    /\ (f_pc = "done" /\ Phases[Len(Phases)] = "TimeoutAtClear") =>
         /\ f_exit = 1
         /\ \A m \in Motors : Halted(m)
    /\ f_pc = "wait_exit" => Halted(1) /\ Halted(2)


\* the places of the main flow from the start of Phase1Drive to the end of
\* the wait for the exit sensor
Feeding3 ==
    {"wait_entry", "entry_blocked", "settled", "reverse", "wait_clear",
     "entry_clear", "wait_exit"}

\* the places where motor 3 is stopped
Halting3 == {"exit_blocked", "timeout_entry", "timeout_clear", "timeout_exit"}

\* C32: from the start of Phase1Drive until the exit sensor is found blocked
\* or a wait times out, motor 3 is driven by the one task started in Phase 1,
\* forward, with its stop event clear; its thread is never replaced, its
\* stop event is set and its pins are written low by the main flow only
\* after the exit sensor was found blocked or after a timeout, and its stop
\* event is never cleared.
C32_Motor3Unchanged ==
    /\ [](f_pc \in Feeding3 =>
            /\ motor_thread[3] = 3
            /\ Driving(3) = {3}
            /\ ~motor_stop[3]
            /\ Sense(StepsOf(3)) = 1
            /\ Sense(StepsOf(3)) = Phase1Sense(1))
    /\ [][/\ motor_stop'[3] # motor_stop[3] =>
               motor_stop'[3] /\ f_pc \in Halting3
          /\ (pins[3] # 0 /\ pins'[3] = 0) => f_pc \in Halting3
          /\ motor_thread'[3] # motor_thread[3] => f_pc = "idle"
          /\ (TaskAlive(3) /\ ~TaskAlive(3)') => f_pc \in Halting3]_vars

C32_Witness ==
    /\ f_pc = "wait_exit"
    /\ elapsed > 0
    /\ pins[3] = 3
    /\ tk_pc[3] = "write"
    /\ Halted(1) /\ Halted(2)


(***************************************************************************)
(* Debounce                                                                *)
(***************************************************************************)
\* reads i to j of the call found the pin at the target, and lie at least
\* the stabilization window apart
StableRun(i, j) ==
    /\ i <= j
    /\ \A n \in i..j : ws_reads[n].val = ws_target
    /\ ws_reads[j].at - ws_reads[i].at >= StableRequired

\* the call reads the pin off the target in this step
DeviatingRead == ws_pc = "read" /\ ws_level # ws_target /\ ws_pc' # ws_pc

\* C33, as stated: the call returns true only when the pin has stayed at the
\* target for the stabilization window up to the return, so never when no
\* stay of the call was that long; a read off the target resets stable_start.
C33_OnlyContinuousLevel ==
    /\ [](ws_result = "true" =>
            /\ ws_hold >= StableRequired
            /\ ws_best >= StableRequired)
    /\ [][DeviatingRead => ws_start' = -1]_vars

\* C33, amended: the call returns true only when every poll over at least
\* the stabilization window up to the return read the pin at the target; a
\* read off the target resets stable_start.
C33_OnlyStablePolls ==
    /\ [](ws_result = "true" =>
            \E i \in 1..Len(ws_reads) : StableRun(i, Len(ws_reads)))
    /\ [][DeviatingRead => ws_start' = -1]_vars

C33_Witness ==
    /\ ws_result = "true"
    /\ ws_reads[1].val # ws_target
    /\ ws_start > 0
    /\ Len(ws_reads) >= 3

\* C34, as stated: a call during which the pin stayed at the target for the
\* stabilization window returns true, and a call returns false only at the
\* deadline and without such a stay; it returns once.
C34_HeldLevelRegisters ==
    /\ [](ws_pc = "done" =>
            /\ ws_best >= StableRequired => ws_result = "true"
            /\ ws_result = "false" =>
                  ws_now >= ws_deadline /\ ws_best < StableRequired)
    /\ [][ws_result' # ws_result => ws_result = "none"]_vars

\* C34, amended: a call returns true exactly when its polls over at least
\* the stabilization window all read the pin at the target, and false only
\* at the deadline, without such polls; it returns once.
C34_StablePollsRegister ==
    /\ []((\E i, j \in 1..Len(ws_reads) : StableRun(i, j)) <=> ws_result = "true")
    /\ [](ws_pc = "done" <=> ws_result # "none")
    /\ [](ws_result = "false" => ws_now >= ws_deadline)
    /\ [][ws_result' # ws_result => ws_result = "none"]_vars

C34_Witness ==
    /\ ws_result = "true"
    /\ ws_deadline - ws_now <= PollInterval
    /\ ws_best >= StableRequired


\* the stop event of a task's motor was set while the task ran
Cancelled(k) == TaskAlive(k) /\ (motor_stop[TaskMotor[k]] \/ k \in f_late)

\* C35: a stepping task that runs when its motor's stop event is set leaves
\* the loop at its next test of the event: after a pattern it may have been
\* about to write, it writes no further one, and ends.
C35_PromptCancellation ==
    [][\A k \in Tasks :
          Cancelled(k) =>
             /\ tk_pc[k] = "write" => tk_pc'[k] \in {"write", "inner", "outer"}
             /\ tk_pc[k] = "inner" => tk_pc'[k] \in {"inner", "outer"}
             /\ tk_pc[k] = "outer" => tk_pc'[k] \in {"outer", "dead"}]_vars


\* the motors for which stop_motor had returned, with no restart since,
\* when the main flow came to a place
StoppedBefore(site) ==
    CASE site = "settled" -> {1}
      [] site \in {"reverse", "wait_exit", "exit_blocked", "timeout_exit"} -> {1, 2}
      [] OTHER -> {}

\* the motors for which stop_motor has returned, with no restart since
Stopped ==
    StoppedBefore(f_pc) \cup
       {Stops(f_pc)[n] : n \in 1..(Len(Stops(f_pc)) - Len(f_todo))}

\* task k writes a pattern in this step
Writes(k) == tk_pc[k] = "write" /\ tk_pc'[k] # "write"

\* task k finds its stop event clear in this step, and goes on
GoesOn(k) ==
    \/ tk_pc[k] = "outer" /\ tk_pc'[k] = "inner"
    \/ tk_pc[k] = "inner" /\ tk_pc'[k] = "write"

\* C39: in a run of the feed script at most one stepping task drives a motor
\* at a time; after stop_motor has returned for a motor no task writes the
\* motor's pins until the motor is restarted; and once the stop events of
\* motors 1 and 2 were cleared for Phase 2, no Phase 1 task of these motors
\* finds its event clear and goes on.
C39_OneDriverPerMotor ==
    /\ [](\A m \in Motors : Cardinality(Driving(m)) <= 1)
    /\ [][\A k \in Tasks : Writes(k) => TaskMotor[k] \notin Stopped]_vars
    /\ [][\A k \in {1, 2} :
             (\E n \in 1..Len(f_trace) : f_trace[n] = "reverse") => ~GoesOn(k)]_vars


(***************************************************************************)
(* The cycle's hardware steps and the failed-read counter                  *)
(***************************************************************************)
\* how often a script ran to its end in the cycle a worker is in
Performed(t, op) == Len(SelectSeq(acts[t], LAMBDA a : a.op = op /\ a.ok))

\* the hardware steps of a worker's cycle are over
CycleOver(t) == wpc[t] = "count"

\* C36: when the hardware steps of a cycle whose feed succeeded are over,
\* the card was released exactly once and the next one captured exactly
\* once, whatever identification gave.
C36_ReleaseAndCapturePerCycle ==
    \A t \in Threads :
       (CycleOver(t) /\ Performed(t, "feed") = 1) =>
          /\ Performed(t, "release") = 1
          /\ Performed(t, "capture") = 1

\* C37: when the hardware steps of a cycle are over, every gate that was
\* opened in the cycle was commanded closed afterwards, also when the
\* release, the close or the capture failed.
C37_GatesClosedAtBoundary ==
    \A t \in Threads :
       CycleOver(t) =>
          \A i \in 1..Len(acts[t]) :
             (acts[t][i].op = "open" /\ acts[t][i].ok) =>
                \E j \in (i + 1)..Len(acts[t]) :
                   acts[t][j].op = "close" /\ acts[t][j].bin = acts[t][i].bin

\* a request handler rewrites the file of the failed-read counter
ClearsFailed == HandlerStep /\ counter_files'.failed # counter_files.failed

\* the worker counts an identification that gave an error marker
CountsFailure ==
    /\ failed_read_count' # failed_read_count
    /\ \E t \in Threads : wpc[t] = "read" /\ card'[t] = ErrorCard

\* C38: the clear-failed-count hook leaves the failed-read counter at 0 both
\* in memory, where the status route reads it, and in its file; and an
\* identification failing with an error marker that finds the file at 0
\* brings both to 1.
C38_FailedCountCleared ==
    /\ [][ClearsFailed =>
             /\ counter_files'.failed = 0
             /\ failed_read_count' = 0]_vars
    /\ [][(CountsFailure /\ counter_files.failed = 0) =>
             /\ failed_read_count' = 1
             /\ counter_files'.failed = 1]_vars

====
